---- MODULE Spec2Model ----
(***************************************************************************)
(* State-machine model of the vending simulator: the tool dispatcher       *)
(* (tools/tool_runtime.py), the simulator (core/sim.py), the event queue   *)
(* (core/events.py), the supplier registry (core/suppliers.py) and the     *)
(* sub-agent executor (agents/subagent/executor.py).                       *)
(*                                                                         *)
(* Money is kept in whole units (the code uses floats; rounding error of   *)
(* float arithmetic is not modelled).  The demand model of core/economy.py *)
(* is modelled by its range: each non-empty slot sells any number of units *)
(* between 0 and its quantity.                                             *)
(***************************************************************************)
EXTENDS Integers, Sequences, FiniteSets, TLC

VARIABLES
  config,              \* EnvConfig of the run (fixed at construction)
  warmup,              \* number of tool calls made before the modelled run
  state,               \* Sim.state : VendingState
  event_queue,         \* Sim.event_queue._heap
  message_count,       \* Sim._message_count
  rng_draws,           \* calls made so far on Sim._rng / SupplierRegistry._rng
  terminated,          \* ToolRuntime._terminated
  termination_reason,  \* ToolRuntime._termination_reason
  result               \* the last call of execute and what it returned

vars == <<config, warmup, state, event_queue, message_count, rng_draws,
          terminated, termination_reason, result>>

-----------------------------------------------------------------------------
(* Bounds of the model *)

\* tool calls that advance the clock, per run
MaxToolCalls == 2

-----------------------------------------------------------------------------
(* config.py *)

TIME_COST_MINUTES ==
  [get_money_balance |-> 5, get_storage_inventory |-> 5, read_inbox |-> 25,
   send_email |-> 25, search_products |-> 25, wait_for_next_day |-> 0,
   sub_agent_specs |-> 5, run_sub_agent |-> 75, chat_with_sub_agent |-> 25,
   machine_inventory |-> 5, stock_from_storage |-> 25, set_price |-> 5,
   collect_cash |-> 25]

FALLBACK_TIME_MINUTES == 30

\* tools that take no time
NoTimeCost(tool_name) == TIME_COST_MINUTES["wait_for_next_day"]

\* every tool at the fallback cost
FallbackCost(tool_name) == FALLBACK_TIME_MINUTES

get_time_cost_minutes(tool_name) ==
  IF tool_name \in DOMAIN TIME_COST_MINUTES
    THEN TIME_COST_MINUTES[tool_name]
    ELSE FALLBACK_TIME_MINUTES

\* The runs of the model: the EnvConfig a run is constructed with (rows x
\* slots_per_row slots are built, row r having size class
\* size_class_by_row[r]) and the number of tool calls made before the
\* modelled part of the run starts: that many run_sub_agent calls with an
\* instruction that is not understood (75 minutes each), which leave the
\* clock at 23:45 of day 0 and everything else as constructed.
Runs ==
  { [config |-> [initial_cash |-> 48, daily_fee |-> 20, rows |-> 3,
                 slots_per_row |-> 1,
                 size_class_by_row |-> <<"small", "small", "large">>,
                 bankruptcy_consecutive_days |-> 3, max_messages |-> 30,
                 max_days |-> 3],
     warmup |-> 0],
    [config |-> [initial_cash |-> 3, daily_fee |-> 2, rows |-> 3,
                 slots_per_row |-> 1,
                 size_class_by_row |-> <<"small", "small", "large">>,
                 bankruptcy_consecutive_days |-> 2, max_messages |-> 20,
                 max_days |-> 2],
     warmup |-> 19],
    [config |-> [initial_cash |-> 3, daily_fee |-> 2, rows |-> 3,
                 slots_per_row |-> 1,
                 size_class_by_row |-> <<"small", "small", "large">>,
                 bankruptcy_consecutive_days |-> 2, max_messages |-> 1,
                 max_days |-> 4],
     warmup |-> 0] }

-----------------------------------------------------------------------------
(* tools/tool_schemas.py *)

MAIN_AGENT_TOOL_NAMES ==
  {"get_money_balance", "get_storage_inventory", "read_inbox", "send_email",
   "search_products", "wait_for_next_day", "sub_agent_specs", "run_sub_agent",
   "chat_with_sub_agent"}

SUB_AGENT_TOOL_NAMES ==
  {"machine_inventory", "stock_from_storage", "set_price", "collect_cash"}

-----------------------------------------------------------------------------
(* Dictionaries: a dict is a function whose DOMAIN is its key set *)

EmptyDict == [k \in {} |-> 0]

DictGet(d, k, default) == IF k \in DOMAIN d THEN d[k] ELSE default

DictSet(d, k, v) == [j \in (DOMAIN d) \cup {k} |-> IF j = k THEN v ELSE d[j]]

\* A dictionary whose entry k is kept, with 0
KeepEntry(d, k) == [j \in DOMAIN d |-> IF j = k THEN d[j] - d[j] ELSE d[j]]

DictDel(d, k) == [j \in (DOMAIN d) \ {k} |-> d[j]]

RECURSIVE SumOver(_, _)
SumOver(S, f) ==
  IF S = {} THEN 0
  ELSE LET x == CHOOSE y \in S : TRUE IN f[x] + SumOver(S \ {x}, f)

\* The first of two numbers, whichever is smaller
First(a, b) == a

Min(a, b) == IF a < b THEN a ELSE b

Max(a, b) == IF a > b THEN a ELSE b

-----------------------------------------------------------------------------
(* core/events.py *)

MinutesPerDay == 1440

_timestamp(day, minute) == day * MinutesPerDay + minute

\* Event.__post_init__ : ts = 0 is replaced by the timestamp of (day, minute)
Event(ts, day, minute, kind, payload) ==
  [ts |-> IF ts = 0 THEN _timestamp(day, minute) ELSE ts,
   day |-> day, minute |-> minute, kind |-> kind, payload |-> payload]

\* dataclass(order=True): compare (ts, day, minute, kind); payload is not
\* compared.  The kinds are str enums and compare as strings; only one kind
\* is ever queued, so equal (ts, day, minute) means "not less".
EventLt(a, b) ==
  \/ a.ts < b.ts
  \/ a.ts = b.ts /\ a.day < b.day
  \/ a.ts = b.ts /\ a.day = b.day /\ a.minute < b.minute

\* heapq._siftdown(heap, startpos, pos), heap 1-indexed here
RECURSIVE SiftDown(_, _, _, _)
SiftDown(heap, startpos, pos, newitem) ==
  IF pos > startpos
    THEN LET parentpos == pos \div 2 IN
         IF EventLt(newitem, heap[parentpos])
           THEN SiftDown([heap EXCEPT ![pos] = heap[parentpos]],
                         startpos, parentpos, newitem)
           ELSE [heap EXCEPT ![pos] = newitem]
    ELSE [heap EXCEPT ![pos] = newitem]

\* heapq._siftup(heap, pos): bubble the smaller child up to a leaf, then
\* sift the displaced item down from there
RECURSIVE SiftUpWalk(_, _, _)
SiftUpWalk(heap, pos, newitem) ==
  LET endpos   == Len(heap)
      childpos == 2 * pos
      rightpos == childpos + 1
  IN IF childpos <= endpos
       THEN LET c == IF rightpos <= endpos
                        /\ ~EventLt(heap[childpos], heap[rightpos])
                       THEN rightpos ELSE childpos
            IN SiftUpWalk([heap EXCEPT ![pos] = heap[c]], c, newitem)
       ELSE SiftDown(heap, 1, pos, newitem)

\* EventQueue.push
EventQueuePush(heap, event) ==
  LET ev == IF event.ts = 0
              THEN [event EXCEPT !.ts = _timestamp(event.day, event.minute)]
              ELSE event
      h  == Append(heap, ev)
  IN SiftDown(h, 1, Len(h), ev)

\* heapq.heappop: <<returned item, heap afterwards>>
HeapPop(heap) ==
  LET lastelt == heap[Len(heap)]
      rest    == SubSeq(heap, 1, Len(heap) - 1)
  IN IF rest = <<>>
       THEN <<lastelt, rest>>
       ELSE <<rest[1], SiftUpWalk(rest, 1, lastelt)>>

\* EventQueue.pop_until: [out |-> events popped in order, heap |-> the rest]
RECURSIVE PopUntilFrom(_, _, _)
PopUntilFrom(heap, until_ts, out) ==
  IF heap # <<>> /\ heap[1].ts <= until_ts
    THEN LET p == HeapPop(heap)
         IN PopUntilFrom(p[2], until_ts, Append(out, p[1]))
    ELSE [out |-> out, heap |-> heap]

\* a drain that looks one day ahead of the clock
pop_until_tomorrow(heap, day, minute) ==
  PopUntilFrom(heap, _timestamp(day + 1, minute), <<>>)

\* a pop_until that stops before the events of the minute asked for
pop_until_exclusive(heap, day, minute) ==
  PopUntilFrom(heap, _timestamp(day, minute) - 1, <<>>)

pop_until(heap, day, minute) == PopUntilFrom(heap, _timestamp(day, minute), <<>>)

-----------------------------------------------------------------------------
(* core/suppliers.py *)

\* The suppliers registered before play, in registration order.  Prices and
\* minimum order values are whole money units; lead_time_days is <<lo, hi>>.
RegisteredSuppliers ==
  << [supplier_id |-> "supplier_1",
      catalog |-> [cola |-> 4, gum |-> 2],
      min_order_value |-> 32,
      lead_time_days |-> <<1, 2>>,
      size_class_map |-> [nuts |-> "large"]],
     [supplier_id |-> "supplier_2",
      catalog |-> [cola |-> 6, nuts |-> 4],
      min_order_value |-> 12,
      lead_time_days |-> <<2, 2>>,
      size_class_map |-> [nuts |-> "large"]] >>

\* Supplier.size_class
SupplierSizeClass(s, item_id) ==
  IF item_id \in DOMAIN s.size_class_map
    THEN s.size_class_map[item_id]
    ELSE "small"

\* Supplier.unit_price: catalog.get(item_id); "None" when absent
NoPrice == -1

unit_price(s, item_id) == DictGet(s.catalog, item_id, NoPrice)

\* SupplierRegistry.register_supplier, applied to each supplier in turn:
\* _suppliers maps id -> supplier, _product_db keeps the first price seen
RECURSIVE RegisterAll(_, _, _)
RegisterAll(sups, n, reg) ==
  IF n > Len(sups) THEN reg
  ELSE LET s  == sups[n]
           db == [i \in (DOMAIN reg.product_db) \cup (DOMAIN s.catalog) |->
                    IF i \in DOMAIN reg.product_db
                      THEN reg.product_db[i]
                      ELSE [item_id |-> i,
                            size_class |-> SupplierSizeClass(s, i),
                            wholesale_price |-> s.catalog[i]]]
       IN RegisterAll(sups, n + 1,
                      [suppliers |-> DictSet(reg.suppliers, s.supplier_id, s),
                       product_db |-> db])

Registry ==
  RegisterAll(RegisteredSuppliers, 1,
              [suppliers |-> EmptyDict, product_db |-> EmptyDict])

\* Sim.register_supplier: state.item_catalog = suppliers.product_catalog()
item_catalog == Registry.product_db

\* str.strip() and str.lower() on the recipient strings the model sends
Strip(addr) ==
  CASE addr = " " -> ""
    [] addr = "SUPPLIER_2 " -> "SUPPLIER_2"
    [] OTHER -> addr

Lower(addr) == IF addr = "SUPPLIER_2" THEN "supplier_2" ELSE addr

\* The first loop of parse_order_from_email.  A body is a sequence of lines;
\* a line is [ok, name, qty]: ok says that the line has at least two tokens
\* and that its last token parses as an integer (qty), name is the item id
\* built from the other tokens.
RECURSIVE ParseItems(_, _, _, _)
ParseItems(body, n, supplier, items) ==
  IF n > Len(body) THEN items
  ELSE LET line == body[n] IN
       IF line.ok /\ line.name \in DOMAIN supplier.catalog /\ line.qty > 0
         THEN ParseItems(body, n + 1, supplier,
                DictSet(items, line.name, DictGet(items, line.name, 0) + line.qty))
         ELSE ParseItems(body, n + 1, supplier, items)

\* The item ids whose unit price is missing (the test inside the price loop)
MissingItems(supplier, items) ==
  {i \in DOMAIN items : unit_price(supplier, i) = NoPrice}

OrderTotal(supplier, items) ==
  SumOver(DOMAIN items, [i \in DOMAIN items |-> unit_price(supplier, i) * items[i]])

NoOrder ==
  [order_id |-> 0, supplier_id |-> "", items |-> EmptyDict, total_cost |-> 0,
   eta_day |-> 0, status |-> "none", purchase_prices |-> EmptyDict]

Rejected(error, reply_body) ==
  [success |-> FALSE, order |-> NoOrder, error_message |-> error,
   reply_subject |-> <<"Re">>, reply_body |-> reply_body, drew |-> FALSE]

\* a minimum-order test that also turns away a total equal to the minimum
AtOrBelowMinimum(supplier, total) == total <= supplier.min_order_value

\* if total < supplier.min_order_value
BelowMinimum(supplier, total) == total < supplier.min_order_value

\* if total > state.cash_balance
ExceedsCash(st, total) == total > st.cash_balance

\* SupplierRegistry.parse_order_from_email.  lead is the value that
\* supplier.lead_time(self._rng) returns when it is called; drew says whether
\* it was called; the order id is next_order_id() of the state.
parse_order_from_email(to_addr, body, st, lead) ==
  LET supplier_id == Lower(Strip(to_addr)) IN
  IF supplier_id \notin DOMAIN Registry.suppliers
    THEN Rejected("Unknown supplier", "We don't recognize this address")
  ELSE
  LET supplier == Registry.suppliers[supplier_id]
      items    == ParseItems(body, 1, supplier, EmptyDict)
      total    == OrderTotal(supplier, items)
  IN IF DOMAIN items = {}
       THEN Rejected("No valid items", "Please specify product names and quantities")
     ELSE IF MissingItems(supplier, items) # {}
       THEN Rejected("Product not in our catalog", "We don't carry product")
     ELSE IF BelowMinimum(supplier, total)
       THEN Rejected("Order below minimum", "Minimum order value")
     ELSE IF ExceedsCash(st, total)
       THEN Rejected("Insufficient cash balance", "Your order total exceeds balance")
     ELSE
       [success |-> TRUE,
        order |-> [order_id |-> st.order_counter + 1,
                   supplier_id |-> supplier_id,
                   items |-> items,
                   total_cost |-> total,
                   eta_day |-> st.current_day + lead,
                   status |-> "ordered",
                   purchase_prices |->
                     [i \in DOMAIN items |-> unit_price(supplier, i)]],
        error_message |-> "",
        reply_subject |-> <<"Order confirmed", st.order_counter + 1>>,
        reply_body |-> "Order confirmed",
        drew |-> TRUE]

-----------------------------------------------------------------------------
(* core/state.py and core/sim.py *)

NoItem == "None"

\* _build_initial_slots; slot ids count from 0, machine_slots[k] has id k-1
_build_initial_slots(cfg) ==
  [k \in 1..(cfg.rows * cfg.slots_per_row) |->
     LET row == (k - 1) \div cfg.slots_per_row IN
     [slot_id |-> k - 1,
      row |-> row,
      column |-> (k - 1) % cfg.slots_per_row,
      size_class |-> IF row < Len(cfg.size_class_by_row)
                       THEN cfg.size_class_by_row[row + 1] ELSE "small",
      item_id |-> NoItem,
      quantity |-> 0,
      capacity |-> 10]]

create_initial_state(cfg) ==
  [cash_balance |-> cfg.initial_cash,
   cash_in_machine |-> 0,
   daily_fee |-> cfg.daily_fee,
   storage_inventory |-> EmptyDict,
   machine_slots |-> _build_initial_slots(cfg),
   prices |-> EmptyDict,
   open_orders |-> <<>>,
   order_counter |-> 0,
   inbox |-> <<>>,
   outbox |-> <<>>,
   email_counter |-> 0,
   current_day |-> 0,
   minute_of_day |-> 0,
   total_minutes_elapsed |-> 0,
   consecutive_days_unpaid_fee |-> 0,
   total_units_sold |-> 0,
   total_days |-> 0]

\* the net worth without the units in the slots
NetWorthWithoutSlots(st) ==
  st.cash_balance + st.cash_in_machine
    + SumOver({i \in DOMAIN st.storage_inventory :
                 i \in DOMAIN item_catalog /\ st.storage_inventory[i] > 0},
              [i \in DOMAIN st.storage_inventory |->
                 item_catalog[i].wholesale_price * st.storage_inventory[i]])

\* VendingState.net_worth
net_worth(st) ==
  st.cash_balance + st.cash_in_machine
    + SumOver({i \in DOMAIN st.storage_inventory :
                 i \in DOMAIN item_catalog /\ st.storage_inventory[i] > 0},
              [i \in DOMAIN st.storage_inventory |->
                 IF i \in DOMAIN item_catalog
                   THEN item_catalog[i].wholesale_price * st.storage_inventory[i]
                   ELSE 0])
    + SumOver({k \in 1..Len(st.machine_slots) :
                 /\ st.machine_slots[k].item_id # NoItem
                 /\ st.machine_slots[k].quantity > 0
                 /\ st.machine_slots[k].item_id \in DOMAIN item_catalog},
              [k \in 1..Len(st.machine_slots) |->
                 IF st.machine_slots[k].item_id \in DOMAIN item_catalog
                   THEN item_catalog[st.machine_slots[k].item_id].wholesale_price
                          * st.machine_slots[k].quantity
                   ELSE 0])

Email(id, from_addr, to_addr, subject, body, day_sent) ==
  [email_id |-> id, from_addr |-> from_addr, to_addr |-> to_addr,
   subject |-> subject, body |-> body, day_sent |-> day_sent, is_read |-> FALSE]

\* a delivery that credits nothing
CreditNothing(storage, o) == storage

\* for item_id, qty in o.items.items(): storage[item_id] = storage.get(item_id, 0) + qty
CreditOrder(storage, o) ==
  [i \in (DOMAIN storage) \cup (DOMAIN o.items) |->
     DictGet(storage, i, 0) + DictGet(o.items, i, 0)]

\* a delivery event that is taken from the queue and does nothing
DropEvent(st, ev, day) == st

\* One iteration of the loop of Sim._process_events_until
ProcessEvent(st, ev, day) ==
  IF ev.kind = "delivery"
    THEN LET order_id == ev.payload.order_id
             hit == {k \in 1..Len(st.open_orders) :
                       st.open_orders[k].order_id = order_id}
             credited ==
               IF hit = {} THEN st.storage_inventory
               ELSE CreditOrder(st.storage_inventory,
                      st.open_orders[CHOOSE k \in hit : \A j \in hit : k <= j])
         IN [st EXCEPT
               !.storage_inventory = credited,
               !.open_orders = SelectSeq(st.open_orders,
                                 LAMBDA o : o.order_id # order_id),
               !.email_counter = st.email_counter + 1,
               !.inbox = Append(st.inbox,
                           Email(st.email_counter + 1, ev.payload.supplier_id,
                                 "agent", <<"Delivery completed", order_id>>,
                                 "delivered", day))]
  ELSE IF ev.kind = "daily_fee"
    THEN [st EXCEPT !.cash_balance = st.cash_balance - ev.payload.amount]
  ELSE st

RECURSIVE ProcessAll(_, _, _, _)
ProcessAll(st, evs, n, day) ==
  IF n > Len(evs) THEN st
  ELSE ProcessAll(ProcessEvent(st, evs[n], day), evs, n + 1, day)

\* Sim._process_events_until: [state, heap, processed]
_process_events_until(st, heap, day, minute) ==
  LET Drained(p) == [state |-> ProcessAll(st, p.out, 1, day),
                     heap |-> p.heap,
                     processed |-> p.out]
  IN Drained(pop_until(heap, day, minute))

\* an accepted order for which no event is queued
ScheduleNothing(heap, order, delivery_day, delivery_minute) == heap

\* Sim._schedule_delivery; delivery_minute is what self._rng.randint(0, 1439)
\* returns
_schedule_delivery(heap, order, delivery_day, delivery_minute) ==
  EventQueuePush(heap,
    Event(0, delivery_day, delivery_minute, "delivery",
          [order_id |-> order.order_id, supplier_id |-> order.supplier_id]))

\* a clock that keeps the minutes past midnight
KeepMinutes(st) == st

\* The clock advance of Sim.apply_tool_step
RECURSIVE CarryDays(_)
CarryDays(st) ==
  IF st.minute_of_day >= MinutesPerDay
    THEN CarryDays([st EXCEPT !.minute_of_day = st.minute_of_day - MinutesPerDay,
                              !.current_day = st.current_day + 1,
                              !.total_days = st.current_day + 1])
    ELSE st

AdvanceClock(st, dt) ==
  CarryDays([st EXCEPT !.minute_of_day = st.minute_of_day + dt,
                       !.total_minutes_elapsed = st.total_minutes_elapsed + dt])

\* Sim.apply_tool_step without the message counter: [state, heap, processed]
apply_tool_step(st, heap, tool_name) ==
  LET Drain(s1) == _process_events_until(s1, heap, s1.current_day,
                                         s1.minute_of_day)
  IN Drain(AdvanceClock(st, get_time_cost_minutes(tool_name)))

\* Sim.process_order_email after the parse, r the OrderParseResult:
\* [result, state, heap, scheduled]
PlaceOrder(st, heap, r, delivery_minute) ==
  IF r.success
    THEN IF st.cash_balance >= r.order.total_cost
           THEN [result |-> r,
                 state |-> [st EXCEPT
                              !.order_counter = st.order_counter + 1,
                              !.cash_balance = st.cash_balance - r.order.total_cost,
                              !.open_orders = Append(st.open_orders, r.order)],
                 heap |-> _schedule_delivery(heap, r.order, r.order.eta_day,
                                             delivery_minute),
                 scheduled |-> TRUE]
           ELSE [result |-> [r EXCEPT !.success = FALSE,
                                      !.error_message = "Insufficient balance",
                                      !.reply_body = "Insufficient account balance"],
                 state |-> [st EXCEPT !.order_counter = st.order_counter + 1],
                 heap |-> heap, scheduled |-> FALSE]
    ELSE [result |-> r, state |-> st, heap |-> heap, scheduled |-> FALSE]

\* Sim.process_order_email: [result, state, heap, scheduled]
process_order_email(st, heap, to_addr, body, lead, delivery_minute) ==
  PlaceOrder(st, heap, parse_order_from_email(to_addr, body, st, lead),
             delivery_minute)

-----------------------------------------------------------------------------
(* agents/subagent/executor.py *)

\* VendingState.slot_by_id: the index of the first slot with that id, 0 if none
slot_by_id(st, slot_id) ==
  LET hit == {k \in 1..Len(st.machine_slots) :
                st.machine_slots[k].slot_id = slot_id}
  IN IF hit = {} THEN 0 ELSE CHOOSE k \in hit : \A j \in hit : k <= j

\* A refusal that empties the storage
RefuseAndDrop(st, msg) ==
  [ok |-> FALSE, msg |-> msg,
   state |-> [st EXCEPT !.storage_inventory = EmptyDict]]

\* A first price equal to the wholesale price
AtWholesale(wholesale_price) == wholesale_price

\* wholesale_price * 1.5, the price _apply_stock gives an item that has none
\* (the wholesale prices of the registered suppliers are even, so the
\* product is a whole number)
DefaultPrice(wholesale_price) == (wholesale_price * 3) \div 2

\* return False, message: a refusal of _apply_stock, the state as it was
Refuse(st, msg) == [ok |-> FALSE, msg |-> msg, state |-> st]

\* SubAgentExecutor._apply_stock: [ok, msg, state]
_apply_stock(st, item_id, quantity, slot_id) ==
  LET k == slot_by_id(st, slot_id) IN
  IF k = 0
    THEN Refuse(st, <<"Slot not found", slot_id>>)
  ELSE
  LET slot    == st.machine_slots[k]
      storage == DictGet(st.storage_inventory, item_id, 0)
  IN IF storage < quantity
       THEN Refuse(st, <<"Not enough in storage", item_id>>)
     ELSE IF item_id \notin DOMAIN item_catalog
       THEN Refuse(st, <<"Unknown item", item_id>>)
     ELSE IF slot.size_class # item_catalog[item_id].size_class
       THEN Refuse(st, <<"Wrong size class", slot_id>>)
     ELSE IF slot.item_id # NoItem /\ slot.item_id # item_id
       THEN Refuse(st, <<"Slot already has", slot.item_id>>)
     ELSE
       LET space == slot.capacity - slot.quantity
           put   == Min(quantity, space)
           left  == DictGet(st.storage_inventory, item_id, 0) - put
       IN IF put <= 0
            THEN Refuse(st, <<"Slot is full", slot_id>>)
            ELSE [ok |-> TRUE,
                  msg |-> <<"Stocked", put, item_id, slot_id>>,
                  state |->
                    [st EXCEPT
                       !.storage_inventory =
                          IF left <= 0 THEN DictDel(st.storage_inventory, item_id)
                          ELSE DictSet(st.storage_inventory, item_id, left),
                       !.machine_slots[k].item_id = item_id,
                       !.machine_slots[k].quantity = slot.quantity + put,
                       !.prices =
                          IF item_id \in DOMAIN st.prices THEN st.prices
                          ELSE DictSet(st.prices, item_id,
                                 DefaultPrice(
                                   item_catalog[item_id].wholesale_price))]]

\* a set_price that removes the price entry of the item
DropPrice(st, item_id, price) ==
  [ok |-> TRUE, msg |-> <<"Set price", item_id, price>>,
   state |-> [st EXCEPT !.prices = DictDel(st.prices, item_id)]]

\* SubAgentExecutor._apply_set_price (prices are whole units: round(price, 2)
\* leaves them as they are)
_apply_set_price(st, item_id, price) ==
  IF price < 0
    THEN [ok |-> FALSE, msg |-> <<"Price cannot be negative">>, state |-> st]
    ELSE [ok |-> TRUE, msg |-> <<"Set price", item_id, price>>,
          state |-> [st EXCEPT !.prices = DictSet(st.prices, item_id, price)]]

\* a collection that empties the machine and credits nothing
EmptyMachine(st) ==
  [ok |-> TRUE, msg |-> <<"Collected", st.cash_in_machine>>,
   state |-> [st EXCEPT !.cash_in_machine = 0]]

\* SubAgentExecutor._apply_collect_cash
_apply_collect_cash(st) ==
  [ok |-> TRUE, msg |-> <<"Collected", st.cash_in_machine>>,
   state |-> [st EXCEPT !.cash_in_machine = 0,
                        !.cash_balance = st.cash_balance + st.cash_in_machine]]

\* SubAgentExecutor._apply_machine_inventory
_apply_machine_inventory(st) ==
  [ok |-> TRUE, msg |-> <<"Machine inventory">>, state |-> st]

\* SubAgentExecutor.run_tool
run_tool(st, tool_name, args) ==
  IF tool_name = "machine_inventory" THEN _apply_machine_inventory(st)
  ELSE IF tool_name = "stock_from_storage"
    THEN _apply_stock(st, args.item_id, args.quantity, args.slot_id)
  ELSE IF tool_name = "set_price"
    THEN _apply_set_price(st, args.item_id, args.price)
  ELSE IF tool_name = "collect_cash" THEN _apply_collect_cash(st)
  ELSE [ok |-> FALSE, msg |-> <<"Unknown sub-agent tool", tool_name>>, state |-> st]

\* SubAgentExecutor.run_instruction.  An instruction is given by what the
\* patterns of the parser find in it: args.has is the set of patterns that
\* match ("collect cash", "set price", "restock", "inventory"), and item_id,
\* price, quantity, slot_id are the groups the matching pattern captures.
run_instruction(st, args) ==
  IF "collect cash" \in args.has THEN run_tool(st, "collect_cash", args)
  ELSE IF "set price" \in args.has THEN run_tool(st, "set_price", args)
  ELSE IF "restock" \in args.has THEN run_tool(st, "stock_from_storage", args)
  ELSE IF "inventory" \in args.has THEN _apply_machine_inventory(st)
  ELSE [ok |-> FALSE, msg |-> <<"I didn't understand">>, state |-> st]

-----------------------------------------------------------------------------
(* core/economy.py and Sim.end_day_and_report *)

\* A slot that compute_daily_sales looks at
Sellable(slot) ==
  slot.item_id # NoItem /\ slot.quantity > 0 /\ slot.item_id \in DOMAIN item_catalog

\* Economy._f_price raises (math.pow(0.0, negative)) when the price of a
\* sellable slot's item is 0: 1 + pct_diff = price / reference_price = 0
PriceFactorRaises(st) ==
  \E k \in 1..Len(st.machine_slots) :
    /\ Sellable(st.machine_slots[k])
    /\ DictGet(st.prices, st.machine_slots[k].item_id, 0) = 0

\* The outcomes of the per-slot sale: sold = min(slot.quantity, round(demand))
\* with demand any non-negative number, so any number in 0..quantity; the
\* model lets a slot sell nothing, one unit or everything.  One sequence
\* entry per slot.
RECURSIVE SoldOutcomes(_, _)
SoldOutcomes(slots, n) ==
  IF n = 0 THEN {<<>>}
  ELSE {Append(s, x) : s \in SoldOutcomes(slots, n - 1),
                       x \in IF Sellable(slots[n])
                               THEN {0, 1, slots[n].quantity} ELSE {0}}

\* Economy.compute_daily_sales for one outcome: [sales, cash]
compute_daily_sales(st, sold) ==
  LET slots == st.machine_slots
      items == {slots[k].item_id : k \in {j \in 1..Len(slots) : sold[j] > 0}}
  IN [sales |-> [i \in items |->
                   SumOver({k \in 1..Len(slots) : slots[k].item_id = i},
                           [k \in 1..Len(slots) |-> sold[k]])],
      cash |-> SumOver(1..Len(slots),
                 [k \in 1..Len(slots) |->
                    sold[k] * DictGet(st.prices, slots[k].item_id, 0)])]

\* a slot loop that takes the whole quantity from the first slot holding the
\* item
TakeFromFirst(slots, n, item_id, qty) ==
  LET holding == {k \in n..Len(slots) : slots[k].item_id = item_id}
  IN IF holding = {} \/ qty <= 0 THEN slots
     ELSE LET k == CHOOSE x \in holding : \A y \in holding : x <= y
          IN [slots EXCEPT ![k].quantity = slots[k].quantity - qty]

\* The slot loop of end_day_and_report for one item: take qty units from the
\* slots holding it, in slot order
RECURSIVE TakeFromSlots(_, _, _, _)
TakeFromSlots(slots, n, item_id, qty) ==
  IF n > Len(slots) \/ qty <= 0 THEN slots
  ELSE IF slots[n].item_id = item_id
    THEN LET take == Min(slots[n].quantity, qty)
         IN TakeFromSlots([slots EXCEPT ![n].quantity = slots[n].quantity - take],
                          n + 1, item_id, qty - take)
    ELSE TakeFromSlots(slots, n + 1, item_id, qty)

\* sales that are reported and leave the slots as they were
SellNothing(slots, sales, todo) == slots

RECURSIVE ApplySales(_, _, _)
ApplySales(slots, sales, todo) ==
  IF todo = {} THEN slots
  ELSE LET i == CHOOSE x \in todo : TRUE
       IN ApplySales(TakeFromSlots(slots, 1, i, sales[i]), sales, todo \ {i})

\* The fee step with the day's takings counted as cash
PayFromMachine(st) ==
  IF st.cash_balance + st.cash_in_machine >= st.daily_fee
    THEN [st EXCEPT !.cash_balance = st.cash_balance - st.daily_fee,
                    !.consecutive_days_unpaid_fee = 0]
    ELSE [st EXCEPT !.consecutive_days_unpaid_fee =
                       st.consecutive_days_unpaid_fee + 1]

\* The fee step taking what is left of a cash_balance below the fee
ChargeWhatIsLeft(st) ==
  IF st.cash_balance >= st.daily_fee
    THEN [st EXCEPT !.cash_balance = st.cash_balance - st.daily_fee,
                    !.consecutive_days_unpaid_fee = 0]
    ELSE [st EXCEPT !.cash_balance = st.cash_balance - st.cash_balance,
                    !.consecutive_days_unpaid_fee =
                       st.consecutive_days_unpaid_fee + 1]

\* a fee step that takes the fee whatever the balance is
ChargeAnyway(st) ==
  [st EXCEPT !.cash_balance = st.cash_balance - st.daily_fee,
             !.consecutive_days_unpaid_fee = 0]

\* The fee step of end_day_and_report
ChargeDailyFee(st) ==
  IF st.cash_balance >= st.daily_fee
    THEN [st EXCEPT !.cash_balance = st.cash_balance - st.daily_fee,
                    !.consecutive_days_unpaid_fee = 0]
    ELSE [st EXCEPT !.consecutive_days_unpaid_fee =
                       st.consecutive_days_unpaid_fee + 1]

\* The move to the next morning
NextMorning(st) ==
  [st EXCEPT !.current_day = st.current_day + 1,
             !.minute_of_day = 0,
             !.total_minutes_elapsed = (st.current_day + 1) * MinutesPerDay,
             !.total_days = st.current_day + 1]

\* The termination check with the message cap named before the day cap
MessagesFirst(st, cfg, msgs) ==
  LET bankrupt == st.consecutive_days_unpaid_fee >= cfg.bankruptcy_consecutive_days
      days     == st.current_day >= cfg.max_days
      messages == msgs >= cfg.max_messages
  IN <<bankrupt \/ days \/ messages,
       IF bankrupt THEN "bankruptcy"
       ELSE IF messages THEN "max_messages"
       ELSE IF days THEN "max_days"
       ELSE "None">>

\* The termination check: <<terminated, reason>>
TerminationCheck(st, cfg, msgs) ==
  LET bankrupt == st.consecutive_days_unpaid_fee >= cfg.bankruptcy_consecutive_days
      days     == st.current_day >= cfg.max_days
      messages == msgs >= cfg.max_messages
  IN <<bankrupt \/ days \/ messages,
       IF bankrupt THEN "bankruptcy"
       ELSE IF days THEN "max_days"
       ELSE IF messages THEN "max_messages"
       ELSE "None">>

NoReport ==
  [day |-> 0, sales |-> EmptyDict, deliveries |-> <<>>, new_emails |-> 0,
   cash_collected_yesterday |-> 0]

\* Sim.end_day_and_report from the termination check on: d is what the event
\* drain returned, e the sales, s2 the state of the next morning
MorningResult(d, e, s2, cfg, msgs) ==
  LET t == TerminationCheck(s2, cfg, msgs)
  IN [state |-> s2, heap |-> d.heap, processed |-> d.processed,
      report |-> [day |-> s2.current_day,
                  sales |-> e.sales,
                  deliveries |-> <<>>,
                  new_emails |-> Cardinality({k \in 1..Len(s2.inbox) :
                                                ~s2.inbox[k].is_read}),
                  cash_collected_yesterday |-> e.cash],
      terminated |-> t[1], reason |-> t[2]]

\* Sim.end_day_and_report from the application of the sales on
SellAndCharge(d, e, cfg, msgs) ==
  MorningResult(d, e,
    NextMorning(ChargeDailyFee(
      [d.state EXCEPT
         !.total_units_sold =
            d.state.total_units_sold + SumOver(DOMAIN e.sales, e.sales),
         !.machine_slots =
            ApplySales(d.state.machine_slots, e.sales, DOMAIN e.sales),
         !.cash_in_machine = d.state.cash_in_machine + e.cash])),
    cfg, msgs)

\* an end-of-day drain that stops at the minute the clock shows
DrainUntilNow(st, heap) ==
  LET Drain(s0) == _process_events_until(s0, heap, s0.current_day,
                                         s0.minute_of_day)
  IN Drain([st EXCEPT !.total_days = Max(st.total_days, st.current_day)])

\* The event drain of end_day_and_report, up to 23:59 of the current day
EndOfDayDrain(st, heap) ==
  LET Drain(s0) == _process_events_until(s0, heap, s0.current_day,
                                         MinutesPerDay - 1)
  IN Drain([st EXCEPT !.total_days = Max(st.total_days, st.current_day)])

\* Sim.end_day_and_report after the drain, for one sales outcome
AfterDrain(d, cfg, msgs, sold) ==
  SellAndCharge(d, compute_daily_sales(d.state, sold), cfg, msgs)

\* Sim.end_day_and_report for one sales outcome:
\* [state, heap, processed, report, terminated, reason]
end_day_and_report(st, heap, cfg, msgs, sold) ==
  AfterDrain(EndOfDayDrain(st, heap), cfg, msgs, sold)

-----------------------------------------------------------------------------
(* The calls the model makes: tool names and arguments *)

NoArgs ==
  [to_addr |-> "", body |-> <<>>, has |-> {}, item_id |-> "", quantity |-> 0,
   slot_id |-> 0, price |-> 0]

Line(name, qty) == [ok |-> TRUE, name |-> name, qty |-> qty]

JunkLine == [ok |-> FALSE, name |-> "hello", qty |-> 0]

\* A body with an item only supplier_2 carries, an item only supplier_1
\* carries and an item both carry, named on two lines
OrderBody ==
  <<Line("nuts", 3), Line("cola", 1), Line("gum", 12), Line("cola", 1)>>

\* send_email calls: <<to_addr, body>>.  The recipients are a blank, a
\* supplier id, a supplier id in capitals with a trailing blank, and an
\* unknown address.
SendCalls ==
  { <<" ", <<Line("cola", 1)>> >>,
    <<"nobody", <<Line("cola", 1)>> >>,
    <<"supplier_1", <<JunkLine, Line("cola", 0)>> >>,
    <<"supplier_1", <<Line("cola", 1)>> >>,
    <<"supplier_1", OrderBody>>,
    <<"SUPPLIER_2 ", OrderBody>> }

\* values of randint(0, 1439) the model lets the simulator draw
DeliveryMinutes == {0, 1439}

Stock(item_id, quantity, slot_id) ==
  [NoArgs EXCEPT !.item_id = item_id, !.quantity = quantity, !.slot_id = slot_id]

StockArgs ==
  {Stock("cola", 2, 0), Stock("gum", 12, 0), Stock("nuts", 3, 0),
   Stock("cola", 2, 7), Stock("cola", 0, 0), Stock("tea", -1, 0)}

PriceArgs ==
  {[NoArgs EXCEPT !.item_id = "cola", !.price = p] : p \in {-1, 0}}

\* direct calls of the sub-agent tools
SubAgentCalls ==
  {<<"machine_inventory", NoArgs>>, <<"collect_cash", NoArgs>>,
   <<"get_money_balance", NoArgs>>}
  \cup {<<"stock_from_storage", a>> : a \in StockArgs}
  \cup {<<"set_price", a>> : a \in {b \in PriceArgs : b.price < 0}}

\* instructions of run_sub_agent
Instructions ==
  {NoArgs,
   [NoArgs EXCEPT !.has = {"inventory"}],
   [NoArgs EXCEPT !.has = {"collect cash", "set price"}, !.item_id = "cola"],
   [NoArgs EXCEPT !.has = {"set price"}, !.item_id = "cola"],
   [Stock("gum", 2, 0) EXCEPT !.has = {"restock"}]}

\* names that are not main-agent tools
UnknownToolNames == {"collect_cash"}

\* main-agent tools called on a terminated simulator
TerminatedCalls == {"get_money_balance", "wait_for_next_day"}

\* main-agent tools whose only effect is the tool step
ReadOnlyTools ==
  {"get_money_balance"}

-----------------------------------------------------------------------------
(* tools/tool_runtime.py : ToolRuntime.execute *)

\* What execute returned, with the call: msg is the result message, step the
\* events the SimStepResult lists, terminated the returned flag;
\* on_terminated is _terminated when the call was made and advanced says
\* whether total_minutes_elapsed grew during the call; to_addr is the
\* to_addr argument of a send_email call and args the arguments of a
\* sub-agent tool call
Returned(tool, sub, msg, term, processed, report, st2) ==
  [tool |-> tool, is_sub_agent |-> sub, to_addr |-> "", args |-> NoArgs,
   msg |-> msg,
   terminated |-> term, events_processed |-> processed, report |-> report,
   on_terminated |-> terminated,
   advanced |-> st2.total_minutes_elapsed > state.total_minutes_elapsed]

Init ==
  /\ \E run \in Runs : config = run.config /\ warmup = run.warmup
  /\ state = AdvanceClock(create_initial_state(config),
                          warmup * get_time_cost_minutes("run_sub_agent"))
  /\ event_queue = <<>>
  /\ message_count = warmup
  /\ rng_draws = [sim |-> 0, suppliers |-> 0]
  /\ terminated = FALSE
  /\ termination_reason = "None"
  /\ result = [tool |-> "None", is_sub_agent |-> FALSE, to_addr |-> "",
               args |-> NoArgs, msg |-> <<>>, terminated |-> FALSE, events_processed |-> <<>>,
               report |-> NoReport, on_terminated |-> FALSE, advanced |-> FALSE]

\* the model stops issuing clock-advancing calls after MaxToolCalls of them
MayStep == message_count < warmup + MaxToolCalls

\* if is_sub_agent: self.sub_agent.run_tool(tool_name, args)
SubAgentCallOf(calls) ==
  \E c \in calls :
    \E r \in {run_tool(state, c[1], c[2])} :
      /\ state' = r.state
      /\ result' = [Returned(c[1], TRUE, r.msg, FALSE, <<>>, NoReport,
                             r.state)
                      EXCEPT !.args = c[2]]
      /\ UNCHANGED <<config, warmup, event_queue, message_count, rng_draws,
                     terminated, termination_reason>>

SubAgentCall == SubAgentCallOf(SubAgentCalls)

\* a call with an unknown name that takes the tool step before it is refused
ChargedUnknownToolCall(names) ==
  \E name \in names :
    \E step \in {apply_tool_step(state, event_queue, name)} :
      /\ name \notin MAIN_AGENT_TOOL_NAMES
      /\ message_count' = message_count + 1
      /\ state' = step.state
      /\ event_queue' = step.heap
      /\ result' = Returned(name, FALSE, <<"Unknown tool", name>>, FALSE,
                            step.processed, NoReport, step.state)
      /\ UNCHANGED <<config, warmup, rng_draws, terminated, termination_reason>>

\* if tool_name not in MAIN_AGENT_TOOL_NAMES, for a call with one of names
UnknownToolCall(names) ==
  \E name \in names :
    /\ name \notin MAIN_AGENT_TOOL_NAMES
    /\ result' = Returned(name, FALSE, <<"Unknown tool", name>>, FALSE,
                          <<>>, NoReport, state)
    /\ UNCHANGED <<config, warmup, state, event_queue, message_count, rng_draws,
                   terminated, termination_reason>>

UnknownTool == UnknownToolCall(UnknownToolNames)

\* if self._terminated
AlreadyTerminated ==
  \E name \in TerminatedCalls :
    /\ name \in MAIN_AGENT_TOOL_NAMES
    /\ terminated
    /\ result' = Returned(name, FALSE, <<"Simulation already terminated">>,
                          TRUE, <<>>, NoReport, state)
    /\ UNCHANGED <<config, warmup, state, event_queue, message_count, rng_draws,
                   terminated, termination_reason>>

\* a main-agent tool that only reads, for a call with one of names
ReadOnlyCall(names) ==
  /\ ~terminated
  /\ MayStep
  /\ \E name \in names :
       \E step \in {apply_tool_step(state, event_queue, name)} :
         /\ message_count' = message_count + 1
         /\ state' = step.state
         /\ event_queue' = step.heap
         /\ result' = Returned(name, FALSE, <<name>>, FALSE, step.processed,
                               NoReport, step.state)
  /\ UNCHANGED <<config, warmup, rng_draws, terminated, termination_reason>>

\* get_money_balance
ReadOnlyTool == ReadOnlyCall(ReadOnlyTools)

\* every email of the inbox marked as read
MarkAllRead(inbox) ==
  [k \in 1..Len(inbox) |-> [inbox[k] EXCEPT !.is_read = TRUE]]

\* a read_inbox that flips the read flag of the emails it returns
ToggleRead(inbox) ==
  [k \in 1..Len(inbox) |->
     IF k > Len(inbox) - 20
       THEN [inbox[k] EXCEPT !.is_read = ~inbox[k].is_read] ELSE inbox[k]]

\* for e in s.inbox[-20:]: e.is_read = True
MarkRead(inbox) ==
  [k \in 1..Len(inbox) |->
     IF k > Len(inbox) - 20 THEN [inbox[k] EXCEPT !.is_read = TRUE] ELSE inbox[k]]

ReadInbox ==
  /\ ~terminated
  /\ MayStep
  /\ \E step \in {apply_tool_step(state, event_queue, "read_inbox")} :
       /\ message_count' = message_count + 1
       /\ state' = [step.state EXCEPT !.inbox = MarkRead(step.state.inbox)]
       /\ event_queue' = step.heap
       /\ result' = Returned("read_inbox", FALSE,
                             IF step.state.inbox = <<>> THEN <<"Inbox is empty">>
                             ELSE <<"Inbox", Min(20, Len(step.state.inbox))>>,
                             FALSE, step.processed, NoReport, step.state)
  /\ UNCHANGED <<config, warmup, rng_draws, terminated, termination_reason>>

\* the lead times supplier.lead_time can return for the addressed supplier
LeadTimes(to_addr) ==
  LET id == Lower(to_addr) IN
  IF id \in DOMAIN Registry.suppliers
    THEN Registry.suppliers[id].lead_time_days[1]
           .. Registry.suppliers[id].lead_time_days[2]
    ELSE {0}

\* a send_email that records no reply
NoSupplierReply(p, to_addr) ==
  [state |-> p.state,
   heap |-> p.heap,
   msg |-> IF p.result.success
             THEN <<"Order confirmed", p.result.order.order_id,
                    p.result.order.eta_day>>
             ELSE <<"Supplier replied", p.result.reply_body>>,
   order |-> [success |-> p.result.success, drew |-> p.result.drew],
   scheduled |-> p.scheduled]

\* send_email after the outbox entry: the supplier's reply goes to the inbox;
\* p is what process_order_email returned.  [state, heap, msg, order, scheduled]
SupplierReply(p, to_addr) ==
  [state |-> [p.state EXCEPT
                !.email_counter = p.state.email_counter + 1,
                !.inbox = Append(p.state.inbox,
                            Email(p.state.email_counter + 1, to_addr, "agent",
                                  p.result.reply_subject, p.result.reply_body,
                                  p.state.current_day))],
   heap |-> p.heap,
   msg |-> IF p.result.success
             THEN <<"Order confirmed", p.result.order.order_id,
                    p.result.order.eta_day>>
             ELSE <<"Supplier replied", p.result.reply_body>>,
   order |-> [success |-> p.result.success, drew |-> p.result.drew],
   scheduled |-> p.scheduled]

\* the send_email branch after the tool step; to_addr is the stripped address
send_email(st, heap, to_addr, body, lead, delivery_minute) ==
  IF to_addr = ""
    THEN [state |-> st, heap |-> heap, msg |-> <<"Error: to_addr required">>,
          order |-> [success |-> FALSE, drew |-> FALSE], scheduled |-> FALSE]
    ELSE SupplierReply(
           process_order_email(
             [st EXCEPT
                !.email_counter = st.email_counter + 1,
                !.outbox = Append(st.outbox,
                             Email(st.email_counter + 1, "agent", to_addr,
                                   <<"Order">>, body, st.current_day))],
             heap, to_addr, body, lead, delivery_minute),
           to_addr)

\* whether the call reaches supplier.lead_time and _schedule_delivery: both
\* are reached exactly when the order is accepted
Accepts(st, to_addr, body) ==
  to_addr # "" /\ parse_order_from_email(to_addr, body, st, 0).success

SendEmailOf(calls) ==
  /\ ~terminated
  /\ MayStep
  /\ \E call \in calls :
       \E step \in {apply_tool_step(state, event_queue, "send_email")},
          to_addr \in {Strip(call[1])} :
         \E accepts \in {Accepts(step.state, to_addr, call[2])} :
           \E lead \in IF accepts THEN LeadTimes(to_addr) ELSE {0},
              delivery_minute \in IF accepts THEN DeliveryMinutes ELSE {0} :
             \E r \in {send_email(step.state, step.heap, to_addr, call[2],
                                  lead, delivery_minute)} :
               /\ message_count' = message_count + 1
               /\ state' = r.state
               /\ event_queue' = r.heap
               /\ rng_draws' =
                    [sim |-> rng_draws.sim + (IF r.scheduled THEN 1 ELSE 0),
                     suppliers |-> rng_draws.suppliers
                                     + (IF r.order.drew THEN 1 ELSE 0)]
               /\ result' = [Returned("send_email", FALSE, r.msg, FALSE,
                                      step.processed, NoReport, r.state)
                               EXCEPT !.to_addr = call[1]]
  /\ UNCHANGED <<config, warmup, terminated, termination_reason>>

SendEmail == SendEmailOf(SendCalls)

RunSubAgent ==
  /\ ~terminated
  /\ MayStep
  /\ \E instruction \in Instructions :
       \E step \in {apply_tool_step(state, event_queue, "run_sub_agent")} :
         \E r \in {run_instruction(step.state, instruction)} :
           /\ message_count' = message_count + 1
           /\ state' = r.state
           /\ event_queue' = step.heap
           /\ result' = [Returned("run_sub_agent", FALSE, r.msg, FALSE,
                                  step.processed, NoReport, r.state)
                           EXCEPT !.args = instruction]
  /\ UNCHANGED <<config, warmup, rng_draws, terminated, termination_reason>>

\* wait_for_next_day when compute_daily_sales returns
WaitForNextDay ==
  /\ ~terminated
  /\ \E d \in {EndOfDayDrain(state, event_queue)} :
       /\ ~PriceFactorRaises(d.state)
       /\ \E sold \in SoldOutcomes(d.state.machine_slots,
                                    Len(d.state.machine_slots)) :
            \E res \in {AfterDrain(d, config, message_count, sold)} :
              /\ state' = res.state
              /\ event_queue' = res.heap
              /\ terminated' = res.terminated
              /\ termination_reason' = res.reason
              /\ result' = Returned("wait_for_next_day", FALSE,
                                    <<"Morning report", res.report.day>>,
                                    res.terminated, res.processed, res.report,
                                    res.state)
  /\ UNCHANGED <<config, warmup, message_count, rng_draws>>

\* wait_for_next_day when Economy._f_price raises: the exception leaves
\* execute after the event drain, before sales, fee and day advance
WaitForNextDayRaises ==
  /\ ~terminated
  /\ \E d \in {EndOfDayDrain(state, event_queue)} :
       /\ PriceFactorRaises(d.state)
       /\ state' = d.state
       /\ event_queue' = d.heap
       /\ result' = Returned("wait_for_next_day", FALSE, <<"ValueError">>,
                             FALSE, d.processed, NoReport, d.state)
  /\ UNCHANGED <<config, warmup, message_count, rng_draws, terminated,
                 termination_reason>>

Next ==
  \/ SubAgentCall
  \/ UnknownTool
  \/ AlreadyTerminated
  \/ ReadOnlyTool
  \/ ReadInbox
  \/ SendEmail
  \/ RunSubAgent
  \/ WaitForNextDay
  \/ WaitForNextDayRaises

Spec == Init /\ [][Next]_vars

-----------------------------------------------------------------------------
(* core/events.py : the EventQueue of a constructed simulator driven on its
   own, by push, pop and pop_until *)

\* the queue is given at most this many events
MaxEvents == 4

\* the (day, minute) pairs of the events pushed and of the pop_until calls
QueueTimes == {<<0, 0>>, <<1, 0>>, <<1, 1>>}

\* event_queue.push(Event(ts=0, day, minute, kind=DELIVERY, payload)), with
\* the order ids counting the pushes as state.order_counter counts orders
QueuePush ==
  /\ state.order_counter < MaxEvents
  /\ \E t \in QueueTimes :
       \E ev \in {Event(0, t[1], t[2], "delivery",
                        [order_id |-> state.order_counter + 1,
                         supplier_id |-> "supplier_1"])} :
         /\ state' = [state EXCEPT !.order_counter = state.order_counter + 1]
         /\ event_queue' = EventQueuePush(event_queue, ev)
         /\ result' = Returned("push", FALSE, <<>>, FALSE, <<>>, NoReport, state)
  /\ UNCHANGED <<config, warmup, message_count, rng_draws, terminated,
                 termination_reason>>

\* event_queue.pop(): None on an empty heap
QueuePop ==
  /\ IF event_queue = <<>>
       THEN /\ result' = Returned("pop", FALSE, <<"None">>, FALSE, <<>>,
                                  NoReport, state)
            /\ event_queue' = event_queue
       ELSE \E p \in {HeapPop(event_queue)} :
              /\ result' = Returned("pop", FALSE, <<>>, FALSE, <<p[1]>>,
                                    NoReport, state)
              /\ event_queue' = p[2]
  /\ UNCHANGED <<config, warmup, state, message_count, rng_draws, terminated,
                 termination_reason>>

\* event_queue.pop_until(day, minute): the record keeps <<day, minute>> of
\* the call and the list returned
QueuePopUntil ==
  /\ \E t \in QueueTimes :
       \E r \in {pop_until(event_queue, t[1], t[2])} :
         /\ result' = Returned("pop_until", FALSE, <<t[1], t[2]>>, FALSE,
                               r.out, NoReport, state)
         /\ event_queue' = r.heap
  /\ UNCHANGED <<config, warmup, state, message_count, rng_draws, terminated,
                 termination_reason>>

QueueNext ==
  \/ QueuePush
  \/ QueuePop
  \/ QueuePopUntil

QueueSpec == Init /\ [][QueueNext]_vars

-----------------------------------------------------------------------------
(* core/sim.py : end-of-day runs of a machine whose first two slots can hold
   the same item *)

\* the order that fills the storage with cola and gum
OrderFromSupplier1 == SendEmailOf({<<"supplier_1", OrderBody>>})

\* stock_from_storage into slot 0 and slot 1, one cola at a time, and gum
StockSlots ==
  SubAgentCallOf({<<"stock_from_storage", a>> :
                    a \in {Stock("cola", 1, 0), Stock("cola", 1, 1),
                           Stock("gum", 2, 1)}})

SalesNext ==
  \/ OrderFromSupplier1
  \/ StockSlots
  \/ AlreadyTerminated
  \/ WaitForNextDay

SalesSpec == Init /\ [][SalesNext]_vars

-----------------------------------------------------------------------------
(* tools/tool_runtime.py : the main-agent surface of ToolRuntime.execute with
   every tool name, also from a run whose inbox holds more than 20 emails *)

\* the main-agent tools that only read, all of them
AllReadOnlyTools ==
  {"get_money_balance", "get_storage_inventory", "search_products",
   "sub_agent_specs", "chat_with_sub_agent"}

\* names that are not main-agent tools: the sub-agent tools and a name no
\* table holds
AllUnknownToolNames == SUB_AGENT_TOOL_NAMES \cup {"get_weather"}

\* n send_email calls to an address that is no supplier, one after the
\* other: each takes its tool step and leaves one outbox entry and one reply
RECURSIVE InboxWarmup(_, _)
InboxWarmup(st, n) ==
  IF n = 0 THEN st
  ELSE LET Sent(s) == send_email(s, <<>>, "nobody", <<Line("cola", 1)>>, 0, 0)
           next == Sent(apply_tool_step(st, <<>>, "send_email").state).state
       IN IF Len(next.inbox) > Len(st.inbox) THEN InboxWarmup(next, n - 1)
          ELSE st

\* a run that starts after 21 such calls
InboxRun ==
  [config |-> [initial_cash |-> 48, daily_fee |-> 20, rows |-> 3,
               slots_per_row |-> 1,
               size_class_by_row |-> <<"small", "small", "large">>,
               bankruptcy_consecutive_days |-> 3, max_messages |-> 30,
               max_days |-> 3],
   warmup |-> 21]

InboxInit ==
  /\ config = InboxRun.config
  /\ warmup = InboxRun.warmup
  /\ state = InboxWarmup(create_initial_state(config), warmup)
  /\ event_queue = <<>>
  /\ message_count = warmup
  /\ rng_draws = [sim |-> 0, suppliers |-> 0]
  /\ terminated = FALSE
  /\ termination_reason = "None"
  /\ result = [tool |-> "None", is_sub_agent |-> FALSE, to_addr |-> "",
               args |-> NoArgs, msg |-> <<>>, terminated |-> FALSE,
               events_processed |-> <<>>, report |-> NoReport,
               on_terminated |-> FALSE, advanced |-> FALSE]

MainInit == Init \/ InboxInit

AnyReadOnlyTool == ReadOnlyCall(AllReadOnlyTools)

AnyUnknownTool == UnknownToolCall(AllUnknownToolNames)

MainNext ==
  \/ AnyUnknownTool
  \/ AlreadyTerminated
  \/ AnyReadOnlyTool
  \/ ReadInbox
  \/ SendEmail
  \/ RunSubAgent
  \/ WaitForNextDay

MainSpec == MainInit /\ [][MainNext]_vars

-----------------------------------------------------------------------------
(* tools/tool_runtime.py : an agent that orders, stocks and keeps calling
   wait_for_next_day, from a run whose first call set the price of cola *)

\* a run that starts after one run_sub_agent call, which set the price of
\* cola to 0
PricedRun ==
  [config |-> [initial_cash |-> 80, daily_fee |-> 20, rows |-> 3,
               slots_per_row |-> 1,
               size_class_by_row |-> <<"small", "small", "large">>,
               bankruptcy_consecutive_days |-> 3, max_messages |-> 30,
               max_days |-> 4],
   warmup |-> 1]

PricedInit ==
  /\ config = PricedRun.config
  /\ warmup = PricedRun.warmup
  /\ state = run_instruction(
               apply_tool_step(create_initial_state(config), <<>>,
                               "run_sub_agent").state,
               [NoArgs EXCEPT !.has = {"set price"}, !.item_id = "cola"]).state
  /\ event_queue = <<>>
  /\ message_count = warmup
  /\ rng_draws = [sim |-> 0, suppliers |-> 0]
  /\ terminated = FALSE
  /\ termination_reason = "None"
  /\ result = [tool |-> "None", is_sub_agent |-> FALSE, to_addr |-> "",
               args |-> NoArgs, msg |-> <<>>, terminated |-> FALSE,
               events_processed |-> <<>>, report |-> NoReport,
               on_terminated |-> FALSE, advanced |-> FALSE]

\* the orders the agent sends: one to each supplier
OrderCall == SendEmailOf({<<"supplier_1", OrderBody>>, <<"SUPPLIER_2 ", OrderBody>>})

\* stock_from_storage(cola, 2, slot 0) on the sub-agent surface
StockCola == SubAgentCallOf({<<"stock_from_storage", Stock("cola", 2, 0)>>})

LiveNext ==
  \/ OrderCall
  \/ StockCola
  \/ AlreadyTerminated
  \/ WaitForNextDay
  \/ WaitForNextDayRaises

\* the agent keeps calling wait_for_next_day
LiveSpec ==
  /\ PricedInit
  /\ [][LiveNext]_vars
  /\ WF_vars(WaitForNextDay \/ WaitForNextDayRaises)

-----------------------------------------------------------------------------
(* Properties.  A step of Next is one call of ToolRuntime.execute; result is
   what the last call returned, so in a step result is the previous call and
   result' the call of the step. *)

\* the step is a send_email call that went past the dispatcher's checks
SendStep ==
  result'.tool = "send_email" /\ message_count' = message_count + 1

\* the ids of the orders whose Delivery events the step processed
DeliveredIds ==
  {result'.events_processed[k].payload.order_id :
     k \in 1..Len(result'.events_processed)}

\* what the delivered orders hold of an item, from the open orders before
\* the step
DeliveredQty(i) ==
  SumOver({k \in 1..Len(state.open_orders) :
             state.open_orders[k].order_id \in DeliveredIds},
          [k \in 1..Len(state.open_orders) |->
             DictGet(state.open_orders[k].items, i, 0)])

\* the items in storage before or after the step or in an order that was
\* open before it
StoredOrOrdered ==
  (DOMAIN state.storage_inventory) \cup (DOMAIN state'.storage_inventory)
    \cup UNION {DOMAIN state.open_orders[k].items :
                  k \in 1..Len(state.open_orders)}

\* C1: once terminated, no call changes the simulator state (cash, machine,
\* storage, slots, prices, orders, mailboxes, clock, counters, event queue)
C1_StickyTermination ==
  [][terminated => /\ state' = state
                   /\ event_queue' = event_queue
                   /\ message_count' = message_count
                   /\ rng_draws' = rng_draws]_vars

LiveMainCall ==
  /\ ~result'.is_sub_agent
  /\ result'.tool \in MAIN_AGENT_TOOL_NAMES
  /\ ~result'.on_terminated
  /\ result'.msg # <<"ValueError">>

C10_ClockWellFormed ==
  /\ 0 <= state.minute_of_day
  /\ state.minute_of_day < MinutesPerDay
  /\ state.total_minutes_elapsed
       = state.current_day * MinutesPerDay + state.minute_of_day

\* a run_sub_agent call has carried the clock over midnight
C10_Witness ==
  /\ result.tool = "run_sub_agent"
  /\ result.advanced
  /\ state.current_day > 0
  /\ state.minute_of_day < get_time_cost_minutes("run_sub_agent")

\* the call of the step was accepted as an order
OrderAccepted == SendStep /\ result'.msg[1] = "Order confirmed"

\* the call of the step was turned away by the supplier registry
OrderRejected == SendStep /\ result'.msg[1] = "Supplier replied"

\* the open orders before the step that the step did not deliver
Undelivered ==
  SelectSeq(state.open_orders, LAMBDA o : o.order_id \notin DeliveredIds)

\* the events of a queue
Events(heap) == {heap[k] : k \in 1..Len(heap)}

\* the events the step processed
Processed == Events(result'.events_processed)

\* C3: an accepted send_email takes exactly the order total (the sum of
\* quantity times the supplier's unit price) from cash_balance, appends one
\* order to open_orders and queues one Delivery event for it, and eta_day is
\* within the supplier's lead-time window from current_day after the call's
\* clock advance
C3_PrePayment ==
  [][OrderAccepted =>
       LET o == state'.open_orders[Len(state'.open_orders)]
           supplier == Registry.suppliers[o.supplier_id]
           total == SumOver(DOMAIN o.items,
                      [i \in DOMAIN o.items |-> o.items[i] * supplier.catalog[i]])
           d == state'.current_day
       IN /\ o.supplier_id = Lower(Strip(result'.to_addr))
          /\ o.order_id = result'.msg[2]
          /\ o.total_cost = total
          /\ \A i \in DOMAIN o.items : o.items[i] > 0
          /\ state'.cash_balance = state.cash_balance - total
          /\ state'.open_orders = Append(Undelivered, o)
          /\ \A k \in 1..Len(Undelivered) : Undelivered[k].order_id # o.order_id
          /\ Len(event_queue') = Len(event_queue) - Len(result'.events_processed) + 1
          /\ \E ev \in Events(event_queue') :
               /\ Events(event_queue') = (Events(event_queue) \ Processed) \cup {ev}
               /\ ev \notin Events(event_queue)
               /\ ev.kind = "delivery"
               /\ ev.payload.order_id = o.order_id
               /\ ev.day = o.eta_day
          /\ o.eta_day >= d + supplier.lead_time_days[1]
          /\ o.eta_day <= d + supplier.lead_time_days[2]]_vars

\* an order has just been accepted while an earlier one is still open
C3_Witness ==
  /\ result.tool = "send_email"
  /\ result.msg[1] = "Order confirmed"
  /\ Len(state.open_orders) = 2
  /\ Len(event_queue) = 2

\* the total of the lines of a body that parse_order_from_email keeps
BodyTotal(body, catalog) ==
  SumOver(1..Len(body),
          [n \in 1..Len(body) |->
             IF body[n].ok /\ body[n].qty > 0 /\ body[n].name \in DOMAIN catalog
               THEN body[n].qty * catalog[body[n].name] ELSE 0])

\* the body of the email the step put in the outbox
SentBody == state'.outbox[Len(state'.outbox)].body

\* the step is a send_email to a registered supplier with at least one line
\* the supplier can fill, whose total is at least the supplier's minimum and
\* at most the cash balance
Affordable ==
  /\ SendStep
  /\ Lower(Strip(result'.to_addr)) \in DOMAIN Registry.suppliers
  /\ LET supplier == Registry.suppliers[Lower(Strip(result'.to_addr))]
         total == BodyTotal(SentBody, supplier.catalog)
     IN /\ total > 0
        /\ total >= supplier.min_order_value
        /\ total <= state.cash_balance

\* C4 as stated: a rejected send_email leaves cash_balance, cash_in_machine,
\* open_orders, the event queue, storage and the order counter unchanged, and
\* a total equal to the minimum or to the cash balance is accepted
C4_RejectionChangesNothing ==
  [][/\ OrderRejected =>
          /\ state'.cash_balance = state.cash_balance
          /\ state'.cash_in_machine = state.cash_in_machine
          /\ state'.open_orders = state.open_orders
          /\ event_queue' = event_queue
          /\ state'.storage_inventory = state.storage_inventory
          /\ state'.order_counter = state.order_counter
     /\ Affordable => OrderAccepted]_vars

\* C4 amended: a rejected send_email leaves cash_balance, cash_in_machine and
\* the order counter unchanged and adds no order and no event; open_orders,
\* the event queue and storage change only by the deliveries that fall due
\* during the call's clock advance; a total equal to the minimum or to the
\* cash balance is accepted
C4_RejectionAddsNothing ==
  [][/\ OrderRejected =>
          /\ state'.cash_balance = state.cash_balance
          /\ state'.cash_in_machine = state.cash_in_machine
          /\ state'.order_counter = state.order_counter
          /\ state'.open_orders = Undelivered
          /\ Events(event_queue') = Events(event_queue) \ Processed
          /\ Len(event_queue') = Len(event_queue) - Len(result'.events_processed)
          /\ \A i \in StoredOrOrdered :
               DictGet(state'.storage_inventory, i, 0)
                 = DictGet(state.storage_inventory, i, 0) + DeliveredQty(i)
          /\ (result'.events_processed = <<>> =>
                 /\ state'.open_orders = state.open_orders
                 /\ event_queue' = event_queue
                 /\ state'.storage_inventory = state.storage_inventory)
     /\ Affordable => OrderAccepted]_vars

\* a send_email was rejected in a call whose clock advance delivered an
\* earlier order
C4_Witness ==
  /\ result.tool = "send_email"
  /\ result.msg[1] = "Supplier replied"
  /\ Len(result.events_processed) > 0
  /\ state.order_counter = 1

\* the step is a send_email to a registered supplier whose body has a
\* well-formed line with an item the supplier does not carry
NamesUnknownItem ==
  /\ SendStep
  /\ Lower(Strip(result'.to_addr)) \in DOMAIN Registry.suppliers
  /\ \E n \in 1..Len(SentBody) :
       /\ SentBody[n].ok
       /\ SentBody[n].qty > 0
       /\ SentBody[n].name
            \notin DOMAIN Registry.suppliers[Lower(Strip(result'.to_addr))].catalog

\* C5: a send_email to a known supplier whose body has a well-formed line
\* naming an item outside the supplier's catalog creates no order and leaves
\* cash unchanged, whatever the other lines are
C5_UnknownItemRejectsOrder ==
  [][NamesUnknownItem =>
       /\ ~OrderAccepted
       /\ state'.cash_balance = state.cash_balance
       /\ state'.order_counter = state.order_counter
       /\ state'.open_orders = Undelivered]_vars

\* addresses that are empty after str.strip()
BlankAddresses == {"", " "}

\* the emails the step added to the inbox that are not delivery notices
Replies ==
  {k \in 1..Len(state'.inbox) :
     /\ state'.inbox[k].email_id > state.email_counter
     /\ state'.inbox[k].subject[1] # "Delivery completed"}

StockedQty(i) ==
  SumOver({k \in 1..Len(state.machine_slots) :
             /\ state'.machine_slots[k].item_id = i
             /\ state'.machine_slots[k].quantity > state.machine_slots[k].quantity},
          [k \in 1..Len(state.machine_slots) |->
             state'.machine_slots[k].quantity - state.machine_slots[k].quantity])

\* the delivery notices the step added to the inbox
Notices ==
  {k \in 1..Len(state'.inbox) :
     /\ state'.inbox[k].email_id > state.email_counter
     /\ state'.inbox[k].subject[1] = "Delivery completed"}

\* C7: the Delivery events a step processes belong to distinct open orders;
\* the step adds each item of these orders to storage in the ordered
\* quantity, removes exactly these orders from open_orders and appends one
\* delivery notice per order; an order id that has left open_orders is never
\* issued again, so no order is credited twice
C7_DeliveryCompleteness ==
  [][/\ Cardinality(DeliveredIds) = Len(result'.events_processed)
     /\ \A id \in DeliveredIds :
          /\ Cardinality({k \in 1..Len(state.open_orders) :
                            state.open_orders[k].order_id = id}) = 1
          /\ \A k \in 1..Len(state'.open_orders) :
               state'.open_orders[k].order_id # id
          /\ Cardinality({k \in Notices : state'.inbox[k].subject[2] = id}) = 1
     /\ Cardinality(Notices) = Len(result'.events_processed)
     /\ \A k \in 1..Len(Undelivered) : state'.open_orders[k] = Undelivered[k]
     /\ \A i \in StoredOrOrdered :
          DictGet(state'.storage_inventory, i, 0) + StockedQty(i)
            = DictGet(state.storage_inventory, i, 0) + DeliveredQty(i)
     /\ \A k \in 1..Len(state.open_orders) :
          state.open_orders[k].order_id <= state.order_counter
     /\ \A k \in 1..Len(state'.open_orders) :
          k > Len(Undelivered) =>
            state'.open_orders[k].order_id > state.order_counter]_vars

\* one drain has delivered two orders
C7_Witness ==
  /\ Len(result.events_processed) = 2
  /\ state.open_orders = <<>>
  /\ DOMAIN state.storage_inventory = {"cola", "nuts"}

\* the clock reading up to which the step drained the event queue
DrainDay ==
  IF result'.tool = "wait_for_next_day" THEN state.current_day
  ELSE state'.current_day

DrainTimestamp ==
  IF result'.tool = "wait_for_next_day"
    THEN state.current_day * MinutesPerDay + (MinutesPerDay - 1)
    ELSE state'.current_day * MinutesPerDay + state'.minute_of_day

\* C8: a storage quantity grows only in a step that processes a Delivery
\* event; an event is processed when the clock timestamp has reached the
\* event's timestamp, so on or after the eta_day of its order
C8_NoCreditBeforeDelivery ==
  [][/\ (\E i \in DOMAIN state'.storage_inventory :
            state'.storage_inventory[i] > DictGet(state.storage_inventory, i, 0))
          => /\ result'.events_processed # <<>>
             /\ \A i \in DOMAIN state'.storage_inventory :
                  state'.storage_inventory[i]
                    <= DictGet(state.storage_inventory, i, 0) + DeliveredQty(i)
     /\ \A ev \in Processed :
          /\ ev.kind = "delivery"
          /\ ev.ts = ev.day * MinutesPerDay + ev.minute
          /\ ev.ts <= DrainTimestamp
          /\ ev.day <= DrainDay
          /\ \A k \in 1..Len(state.open_orders) :
               state.open_orders[k].order_id = ev.payload.order_id
                 => state.open_orders[k].eta_day <= DrainDay]_vars

\* a tool call before the end of the day has delivered an order
C8_Witness ==
  /\ Len(result.events_processed) > 0
  /\ result.tool # "wait_for_next_day"
  /\ state.minute_of_day > 0
  /\ state.storage_inventory # EmptyDict

\* the step is a wait_for_next_day call whose end-of-day run came back with
\* a morning report
EndOfDayStep ==
  /\ result'.tool = "wait_for_next_day"
  /\ ~result'.on_terminated
  /\ result'.msg[1] = "Morning report"

\* C11: in every end-of-day run, a cash_balance of at least daily_fee goes
\* down by exactly daily_fee and the counter of unpaid days becomes 0;
\* otherwise cash_balance stays and the counter goes up by exactly 1.  Only
\* cash_balance counts: what the machine took that day pays nothing.
C11_DailyFeeRule ==
  [][EndOfDayStep =>
       IF state.cash_balance >= state.daily_fee
         THEN /\ state'.cash_balance = state.cash_balance - state.daily_fee
              /\ state'.consecutive_days_unpaid_fee = 0
         ELSE /\ state'.cash_balance = state.cash_balance
              /\ state'.consecutive_days_unpaid_fee =
                   state.consecutive_days_unpaid_fee + 1]_vars

\* an end-of-day run has left the fee unpaid on a day whose sales alone
\* would have covered it
C11_Witness ==
  /\ result.tool = "wait_for_next_day"
  /\ result.msg[1] = "Morning report"
  /\ result.report.cash_collected_yesterday >= state.daily_fee
  /\ state.cash_in_machine >= state.daily_fee
  /\ state.cash_balance < state.daily_fee
  /\ state.consecutive_days_unpaid_fee >= 1

\* the three conditions of the termination check, on the state a
\* wait_for_next_day call leaves
Bankrupt ==
  state'.consecutive_days_unpaid_fee >= config.bankruptcy_consecutive_days

DaysUp == state'.current_day >= config.max_days

MessagesUp == message_count' >= config.max_messages

\* C12: wait_for_next_day returns terminated = true if and only if, after
\* the fee step and the day advance, the unpaid days have reached the
\* bankruptcy threshold, or current_day has reached max_days, or the message
\* count has reached max_messages; the reason is the first of bankruptcy,
\* max_days, max_messages whose condition holds.
C12_TerminationRule ==
  [][EndOfDayStep =>
       /\ result'.terminated <=> (Bankrupt \/ DaysUp \/ MessagesUp)
       /\ terminated' = result'.terminated
       /\ termination_reason' =
            IF Bankrupt THEN "bankruptcy"
            ELSE IF DaysUp THEN "max_days"
            ELSE IF MessagesUp THEN "max_messages"
            ELSE "None"]_vars

\* a wait_for_next_day call has ended the run on a day on which both caps
\* were reached and the fee counter was below the threshold
C12_Witness ==
  /\ result.tool = "wait_for_next_day"
  /\ result.msg[1] = "Morning report"
  /\ result.terminated
  /\ termination_reason = "max_days"
  /\ state.consecutive_days_unpaid_fee < config.bankruptcy_consecutive_days
  /\ state.current_day >= config.max_days
  /\ message_count >= config.max_messages

\* the number of wait_for_next_day calls that pay the fee out of the initial
\* cash: floor(c / f)
PaidDays == config.initial_cash \div config.daily_fee

\* No tool step has been taken since construction: the clock has moved by
\* wait_for_next_day only (each call moves current_day by one), and the run
\* is one in which bankruptcy comes before the day cap
WaitsOnly ==
  /\ warmup = 0
  /\ message_count = 0
  /\ config.daily_fee > 0
  /\ PaidDays + config.bankruptcy_consecutive_days < config.max_days

\* C13: from a fresh state with initial cash c, fee f > 0 and threshold k,
\* with wait_for_next_day the only call that moves the clock, after n calls
\* cash_balance is c - f * min(n, floor(c/f)) and the unpaid counter is
\* max(0, n - floor(c/f)); the run is terminated exactly from call number
\* floor(c/f) + k on, with reason bankruptcy, and that call is the first to
\* return terminated = true.
C13_BankruptcyTiming ==
  WaitsOnly =>
    /\ state.current_day <= PaidDays + config.bankruptcy_consecutive_days
    /\ state.cash_balance =
         config.initial_cash
           - config.daily_fee * Min(state.current_day, PaidDays)
    /\ state.consecutive_days_unpaid_fee = Max(0, state.current_day - PaidDays)
    /\ terminated <=>
         state.current_day = PaidDays + config.bankruptcy_consecutive_days
    /\ terminated => termination_reason = "bankruptcy"
    /\ result.tool = "wait_for_next_day" => result.terminated = terminated

\* the call number floor(c/f) + k has ended such a run, after days with the
\* fee paid and days with the fee unpaid, with cash left
C13_Witness ==
  /\ WaitsOnly
  /\ PaidDays >= 1
  /\ result.tool = "wait_for_next_day"
  /\ result.terminated
  /\ ~result.on_terminated
  /\ state.current_day = PaidDays + config.bankruptcy_consecutive_days
  /\ state.cash_balance > 0

\* the step is a stock_from_storage call, made directly or through a
\* run_sub_agent instruction whose tool step processed no event
StockStep ==
  \/ result'.is_sub_agent /\ result'.tool = "stock_from_storage"
  \/ /\ result'.tool = "run_sub_agent"
     /\ message_count' = message_count + 1
     /\ result'.args.has = {"restock"}
     /\ result'.events_processed = <<>>

StockRefused == StockStep /\ result'.msg[1] # "Stocked"

StockDone == StockStep /\ result'.msg[1] = "Stocked"

\* item_id and quantity of every slot
SlotContents(st) ==
  [k \in 1..Len(st.machine_slots) |->
     <<st.machine_slots[k].item_id, st.machine_slots[k].quantity>>]

\* C14: a refused stock_from_storage (slot not found, storage below the
\* quantity, unknown item, wrong size class, slot holding another item, no
\* free space, quantity <= 0) leaves storage, the item_id and quantity of
\* every slot, and prices as they were.
C14_RefusedStockingChangesNothing ==
  [][StockRefused =>
       /\ state'.storage_inventory = state.storage_inventory
       /\ SlotContents(state') = SlotContents(state)
       /\ state'.prices = state.prices]_vars

\* a stocking has been refused for want of free space, with units of the
\* item in storage, a filled slot and a price set
C14_Witness ==
  /\ result.tool \in {"stock_from_storage", "run_sub_agent"}
  /\ result.msg[1] = "Slot is full"
  /\ result.args.quantity >= 1
  /\ result.args.item_id \in DOMAIN state.storage_inventory
  /\ result.args.item_id \in DOMAIN state.prices
  /\ \E k \in 1..Len(state.machine_slots) :
       state.machine_slots[k].quantity = state.machine_slots[k].capacity

\* what a successful stock_from_storage(item_id, quantity, slot_id) has to
\* leave, from the state before the call: put = min(quantity, capacity -
\* slot.quantity) units moved from storage[item_id] to slot number k
StockedAsAsked(st, st2, item_id, quantity, k) ==
  LET slot == st.machine_slots[k]
      free == slot.capacity - slot.quantity
      put  == IF quantity <= free THEN quantity ELSE free
      left == DictGet(st.storage_inventory, item_id, 0) - put
  IN /\ put >= 1
     /\ left >= 0
     /\ st2.storage_inventory =
          [j \in IF left = 0 THEN DOMAIN st.storage_inventory \ {item_id}
                 ELSE DOMAIN st.storage_inventory |->
             IF j = item_id THEN left ELSE st.storage_inventory[j]]
     /\ st2.machine_slots =
          [st.machine_slots EXCEPT ![k].quantity = slot.quantity + put,
                                   ![k].item_id = item_id]
     /\ st2.prices =
          IF item_id \in DOMAIN st.prices THEN st.prices
          ELSE DictSet(st.prices, item_id,
                       (item_catalog[item_id].wholesale_price * 3) \div 2)

\* C15: a successful stock_from_storage(item, quantity, slot) moves exactly
\* put = min(quantity, capacity - slot.quantity) units: storage[item] goes
\* down by put (the entry is removed at 0), the slot's quantity goes up by
\* put and its item_id becomes item, no other slot or storage entry changes,
\* and prices[item] becomes wholesale_price * 1.5 only if the item had no
\* price (an existing price is kept).
C15_StockMovesPut ==
  [][StockDone =>
       /\ slot_by_id(state, result'.args.slot_id) # 0
       /\ StockedAsAsked(state, state', result'.args.item_id,
                         result'.args.quantity,
                         slot_by_id(state, result'.args.slot_id))
       /\ result'.msg[2] =
            DictGet(state.storage_inventory, result'.args.item_id, 0)
              - DictGet(state'.storage_inventory, result'.args.item_id, 0)]_vars

\* a stocking has put fewer units than asked into a slot, filled it, left
\* the rest in storage and given the item its first price
C15_Witness ==
  /\ result.tool = "stock_from_storage"
  /\ result.msg[1] = "Stocked"
  /\ result.msg[2] < result.args.quantity
  /\ result.args.item_id \in DOMAIN state.storage_inventory
  /\ result.args.item_id \in DOMAIN state.prices
  /\ state.prices[result.args.item_id] # item_catalog[result.args.item_id].wholesale_price

\* the preconditions of a stocking other than the slot's own contents: the
\* slot exists, the item is in the catalog and of the slot's size class,
\* and storage holds the quantity asked, which is at least 1
StockPreconditions(st, args) ==
  /\ slot_by_id(st, args.slot_id) # 0
  /\ args.item_id \in DOMAIN item_catalog
  /\ args.quantity >= 1
  /\ DictGet(st.storage_inventory, args.item_id, 0) >= args.quantity
  /\ st.machine_slots[slot_by_id(st, args.slot_id)].size_class =
       item_catalog[args.item_id].size_class

\* C16: stock_from_storage of an item into a slot whose quantity is 0
\* succeeds whenever the other preconditions hold, also when the slot held
\* a different item that has sold out.
C16_EmptySlotAcceptsAnyItem ==
  [][(/\ StockStep
      /\ StockPreconditions(state, result'.args)
      /\ state.machine_slots[slot_by_id(state, result'.args.slot_id)].quantity = 0)
       => result'.msg[1] = "Stocked"]_vars

\* C17: in every reachable state every slot has 0 <= quantity <= capacity,
\* holds one item id at most (item_id is one value: an item id or none),
\* and has quantity 0 when its item_id is none.
C17_SlotInvariant ==
  \A k \in 1..Len(state.machine_slots) :
    LET slot == state.machine_slots[k]
    IN /\ 0 <= slot.quantity
       /\ slot.quantity <= slot.capacity
       /\ slot.item_id \in {NoItem} \cup DOMAIN item_catalog
       /\ slot.item_id = NoItem => slot.quantity = 0

\* a stocking that asked for more than the free space has filled a slot to
\* its capacity, next to a slot that never held an item
C17_Witness ==
  /\ result.tool = "stock_from_storage"
  /\ result.msg[1] = "Stocked"
  /\ result.args.quantity > result.msg[2]
  /\ \E k \in 1..Len(state.machine_slots) :
       /\ state.machine_slots[k].slot_id = result.args.slot_id
       /\ state.machine_slots[k].quantity = state.machine_slots[k].capacity
  /\ \E k \in 1..Len(state.machine_slots) :
       state.machine_slots[k].item_id = NoItem

\* C18: in every reachable state every entry of the storage mapping is a
\* strictly positive integer: an entry that reaches zero is removed, and no
\* delivery or stocking leaves a zero or negative entry.
C18_StorageInvariant ==
  \A i \in DOMAIN state.storage_inventory :
    /\ state.storage_inventory[i] \in Int
    /\ state.storage_inventory[i] >= 1

\* a stocking has taken the last units of an item out of storage, after a
\* delivery that credited two items, and the other item is still stored
C18_Witness ==
  /\ result.tool = "stock_from_storage"
  /\ result.msg[1] = "Stocked"
  /\ result.args.item_id \notin DOMAIN state.storage_inventory
  /\ DOMAIN state.storage_inventory # {}

\* C19: the morning report of wait_for_next_day lists the deliveries of the
\* ended day: its deliveries are exactly the order ids of the Delivery
\* events the end-of-day run drained, and the list is empty only when none
\* was drained.
C19_ReportListsDeliveries ==
  [][EndOfDayStep =>
       /\ {result'.report.deliveries[k] :
             k \in 1..Len(result'.report.deliveries)} = DeliveredIds
       /\ result'.report.deliveries = <<>> =>
            result'.events_processed = <<>>]_vars

\* the events a pop or pop_until of the step returned, in order
Popped == result'.events_processed

\* C20: events with the same timestamp leave the queue, by pop_until and by
\* pop, in the order in which they were pushed (the order ids number the
\* pushes), also when four or more events share one timestamp.
C20_StableTieBreak ==
  [][result'.tool \in {"pop", "pop_until"} =>
       /\ \A i, j \in 1..Len(Popped) :
            (i < j /\ Popped[i].ts = Popped[j].ts)
              => Popped[i].payload.order_id < Popped[j].payload.order_id
       /\ \A i \in 1..Len(Popped) : \A k \in 1..Len(event_queue') :
            Popped[i].ts = event_queue'[k].ts
              => Popped[i].payload.order_id < event_queue'[k].payload.order_id]_vars

\* the minutes a main-agent tool is said to take
TableCost(tool) ==
  IF tool \in {"get_money_balance", "get_storage_inventory", "sub_agent_specs"}
    THEN 5
  ELSE IF tool = "run_sub_agent" THEN 75
  ELSE 25

\* the step is a call of a main-agent tool other than wait_for_next_day on
\* a simulator that is not terminated
MainToolStep ==
  /\ result'.tool \in MAIN_AGENT_TOOL_NAMES \ {"wait_for_next_day"}
  /\ ~result'.is_sub_agent
  /\ ~result'.on_terminated
  /\ ~terminated

\* C21: every main-agent tool call other than wait_for_next_day that is
\* executed on a non-terminated simulator advances total_minutes_elapsed by
\* exactly the tool's table cost and the message counter by 1, also when the
\* tool's own effect fails.
C21_ToolCostAlwaysCharged ==
  [][MainToolStep =>
       /\ state'.total_minutes_elapsed =
            state.total_minutes_elapsed + TableCost(result'.tool)
       /\ message_count' = message_count + 1]_vars

\* a run_sub_agent call whose stocking was refused has cost its 75 minutes
\* and its message
C21_Witness ==
  /\ result.tool = "run_sub_agent"
  /\ result.msg[1] = "Not enough in storage"
  /\ warmup = 0
  /\ message_count = 1
  /\ state.total_minutes_elapsed = TableCost("run_sub_agent")

\* the step is a call on the main surface with a name that is not a
\* main-agent tool
UnknownNameStep ==
  /\ ~result'.is_sub_agent
  /\ result'.tool \notin MAIN_AGENT_TOOL_NAMES \cup {"None", "push", "pop", "pop_until"}

\* C22: a call with a tool name outside the main-agent tool set, the
\* sub-agent tool names included, returns the unknown-tool result and
\* changes nothing: clock, message counter, event queue and all business
\* state stay as they were.
C22_UnknownToolChangesNothing ==
  [][UnknownNameStep =>
       /\ result'.msg = <<"Unknown tool", result'.tool>>
       /\ ~result'.terminated
       /\ result'.events_processed = <<>>
       /\ UNCHANGED <<state, event_queue, message_count, rng_draws,
                      terminated, termination_reason>>]_vars

\* stock_from_storage has been called on the main surface of a running
\* simulator, with units in storage, and was answered as an unknown tool
C22_Witness ==
  /\ result.tool = "stock_from_storage"
  /\ ~result.is_sub_agent
  /\ result.msg[1] = "Unknown tool"
  /\ DOMAIN state.storage_inventory # {}
  /\ ~terminated

\* the step is a read_inbox call that went past the dispatcher's checks
ReadStep ==
  result'.tool = "read_inbox" /\ message_count' = message_count + 1

\* inbox2 is inbox with its last min(20, n) emails read and nothing else
\* changed
LastTwentyRead(inbox, inbox2) ==
  /\ Len(inbox2) = Len(inbox)
  /\ \A k \in 1..Len(inbox) :
       /\ [inbox2[k] EXCEPT !.is_read = inbox[k].is_read] = inbox[k]
       /\ inbox2[k].is_read = (k > Len(inbox) - 20 \/ inbox[k].is_read)

\* C23: read_inbox marks as read exactly the emails it returns: after the
\* call the last min(20, n) emails of the inbox, as the call's event drain
\* left it, are read, the read flag of every earlier email is unchanged, and
\* the read adds, removes and reorders no email.
C23_ReadMarksWhatItReturns ==
  [][ReadStep =>
       /\ LastTwentyRead(
            apply_tool_step(state, event_queue, "read_inbox").state.inbox,
            state'.inbox)
       /\ Len(state'.inbox) = Len(state.inbox) + Len(result'.events_processed)
       /\ state'.inbox # <<>> =>
            result'.msg = <<"Inbox",
                            IF Len(state'.inbox) < 20 THEN Len(state'.inbox)
                            ELSE 20>>]_vars

\* read_inbox has been called on an inbox of more than 20 emails: the
\* first is still unread, the others are read
C23_Witness ==
  /\ result.tool = "read_inbox"
  /\ Len(state.inbox) > 20
  /\ ~state.inbox[1].is_read
  /\ \A k \in 2..Len(state.inbox) : state.inbox[k].is_read

\* the call of a state's result was a collect_cash, made directly or through
\* a run_sub_agent instruction
Collected(r) ==
  /\ Len(r.msg) >= 1
  /\ r.msg[1] = "Collected"
  /\ r.tool \in {"collect_cash", "run_sub_agent"}

\* C24: collect_cash moves all in-machine cash to the balance: afterwards
\* cash_in_machine is 0 and cash_balance has grown by exactly the previous
\* cash_in_machine, so cash_balance + cash_in_machine and the net worth are
\* unchanged (the net worth of a call through run_sub_agent is compared when
\* its tool step credited no delivery); a second collect_cash right after
\* changes nothing.
C24_CollectMovesCash ==
  [][Collected(result') =>
       /\ state'.cash_in_machine = 0
       /\ state'.cash_balance = state.cash_balance + state.cash_in_machine
       /\ result'.msg[2] = state.cash_in_machine
       /\ result'.events_processed = <<>> =>
            net_worth(state') = net_worth(state)
       /\ (Collected(result) /\ result'.is_sub_agent) => state' = state]_vars

\* a collect_cash has moved the takings of a day of sales to the balance
C24_Witness ==
  /\ Collected(result)
  /\ result.msg[2] > 0
  /\ state.cash_in_machine = 0
  /\ state.cash_balance >= result.msg[2]
  /\ state.total_units_sold > 0

\* every unit in storage and in the slots at the catalog wholesale price of
\* its item
InventoryValue(st) ==
  SumOver(DOMAIN st.storage_inventory,
          [i \in DOMAIN st.storage_inventory |->
             item_catalog[i].wholesale_price * st.storage_inventory[i]])
    + SumOver({k \in 1..Len(st.machine_slots) :
                 st.machine_slots[k].quantity # 0},
              [k \in 1..Len(st.machine_slots) |->
                 IF st.machine_slots[k].quantity # 0
                   THEN item_catalog[st.machine_slots[k].item_id].wholesale_price
                          * st.machine_slots[k].quantity
                   ELSE 0])

\* C25: in every reachable state net_worth() is cash_balance +
\* cash_in_machine + the sum, over every storage entry and every slot, of
\* quantity times the catalog wholesale price of the item; every stored or
\* stocked item id is in the catalog, so no unit is left out.
C25_NetWorth ==
  /\ DOMAIN state.storage_inventory \subseteq DOMAIN item_catalog
  /\ \A k \in 1..Len(state.machine_slots) :
       state.machine_slots[k].quantity # 0 =>
         state.machine_slots[k].item_id \in DOMAIN item_catalog
  /\ net_worth(state) =
       state.cash_balance + state.cash_in_machine + InventoryValue(state)

\* a state with cash at hand, cash in the machine, units in storage and
\* units in a slot
C25_Witness ==
  /\ state.cash_balance > 0
  /\ state.cash_in_machine > 0
  /\ DOMAIN state.storage_inventory # {}
  /\ \E k \in 1..Len(state.machine_slots) : state.machine_slots[k].quantity > 0
  /\ net_worth(state) > state.cash_balance + state.cash_in_machine

\* C26: no exception escapes the core: wait_for_next_day on a simulator
\* that is not terminated completes and returns a morning report from every
\* reachable state, also when the price of an item stocked in a non-empty
\* slot has been set to 0.
C26_WaitAlwaysReturnsReport ==
  [][(result'.tool = "wait_for_next_day" /\ ~result'.on_terminated) =>
       /\ result'.msg[1] = "Morning report"
       /\ state'.current_day = state.current_day + 1]_vars

\* the ids an order can get
OrderIds == 1..(1 + MaxToolCalls)

\* order o is in open_orders
OrderOpen(o) ==
  \E k \in 1..Len(state.open_orders) : state.open_orders[k].order_id = o

\* C27: every accepted order is eventually delivered: when the agent keeps
\* calling wait_for_next_day and the simulation does not terminate first,
\* the order leaves open_orders (which only its delivery makes it do).
C27_EventuallyDelivered ==
  \A o \in OrderIds : OrderOpen(o) ~> (~OrderOpen(o) \/ terminated)

\* the timestamp pop_until was called with, and the events it returned
UntilTs == _timestamp(result'.msg[1], result'.msg[2])

\* C28: pop_until(day, minute) removes and returns exactly the queued events
\* whose timestamp day * 1440 + minute is at most that of the call, in
\* non-decreasing timestamp order, and leaves every later event queued; so also
\* for an event of day 0, minute 0, whose timestamp is 0.
C28_PopUntilExact ==
  [][result'.tool = "pop_until" =>
       /\ \A i \in 1..Len(Popped) :
            /\ Popped[i].ts = _timestamp(Popped[i].day, Popped[i].minute)
            /\ Popped[i].ts <= UntilTs
            /\ \E k \in 1..Len(event_queue) : event_queue[k] = Popped[i]
       /\ \A i, j \in 1..Len(Popped) : i < j => Popped[i].ts <= Popped[j].ts
       /\ \A k \in 1..Len(event_queue') :
            /\ _timestamp(event_queue'[k].day, event_queue'[k].minute) > UntilTs
            /\ \E i \in 1..Len(event_queue) : event_queue[i] = event_queue'[k]
       /\ \A k \in 1..Len(event_queue) :
            \/ \E i \in 1..Len(Popped) : Popped[i] = event_queue[k]
            \/ \E i \in 1..Len(event_queue') : event_queue'[i] = event_queue[k]
       /\ Len(Popped) + Len(event_queue') = Len(event_queue)]_vars

\* a pop_until(1, 0) has returned an event of timestamp 0 and one of day 1,
\* minute 0, and has left a later one queued
C28_Witness ==
  /\ result.tool = "pop_until"
  /\ result.msg = <<1, 0>>
  /\ \E i, j \in 1..Len(result.events_processed) :
       /\ result.events_processed[i].ts = 0
       /\ result.events_processed[j].ts = _timestamp(1, 0)
  /\ event_queue # <<>>

\* the last minute of the day the end-of-day run closes
EndOfDayTs == _timestamp(state.current_day, MinutesPerDay - 1)

\* C29: drain-then-demand.  The end-of-day run processes every queued event
\* with a timestamp up to (current_day, 1439) before sales and fee: when
\* wait_for_next_day returns on the morning of day d+1 each of them is among
\* the events processed and out of the queue, its delivery is in the state
\* the sales and the fee started from, and no queued event has a day <= d.
C29_DrainThenDemand ==
  [][EndOfDayStep =>
       /\ \A k \in 1..Len(event_queue) :
            event_queue[k].ts <= EndOfDayTs
              => /\ \E i \in 1..Len(Popped) : Popped[i] = event_queue[k]
                 /\ \A j \in 1..Len(event_queue') :
                      event_queue'[j] # event_queue[k]
                 /\ \A o \in 1..Len(state'.open_orders) :
                      state'.open_orders[o].order_id
                        # event_queue[k].payload.order_id
       /\ \A j \in 1..Len(event_queue') :
            /\ event_queue'[j].day > state.current_day
            /\ event_queue'[j].day >= state'.current_day]_vars

\* a wait_for_next_day has returned after processing a delivery of minute
\* 1439 of the day it closed, with a later delivery still queued
C29_Witness ==
  /\ result.tool = "wait_for_next_day"
  /\ ~result.on_terminated
  /\ result.msg = <<"Morning report", state.current_day>>
  /\ \E i \in 1..Len(result.events_processed) :
       /\ result.events_processed[i].day = state.current_day - 1
       /\ result.events_processed[i].minute = MinutesPerDay - 1
  /\ event_queue # <<>>

\* the units of an item in the slots of a state
SlotUnits(st, item_id) ==
  SumOver({k \in 1..Len(st.machine_slots) :
             st.machine_slots[k].item_id = item_id},
          [k \in 1..Len(st.machine_slots) |-> st.machine_slots[k].quantity])

\* the units the morning report of the step says were sold of an item
ReportedSold(item_id) ==
  IF item_id \in DOMAIN result'.report.sales
    THEN result'.report.sales[item_id] ELSE 0

\* C30: in one end-of-day run the units removed from the slots holding an
\* item are the units reported sold for it, never more than the slots held
\* before the run, and no slot quantity goes negative; total_units_sold goes
\* up by the sum of the reported sales and cash_in_machine by the sum of the
\* sold units times the item's current price.
C30_SalesAccounting ==
  [][EndOfDayStep =>
       /\ \A i \in DOMAIN item_catalog :
            /\ SlotUnits(state, i) - SlotUnits(state', i) = ReportedSold(i)
            /\ ReportedSold(i) >= 0
            /\ ReportedSold(i) <= SlotUnits(state, i)
       /\ DOMAIN result'.report.sales \subseteq DOMAIN item_catalog
       /\ \A k \in 1..Len(state'.machine_slots) :
            /\ state'.machine_slots[k].quantity >= 0
            /\ state'.machine_slots[k].quantity
                 <= state.machine_slots[k].quantity
       /\ state'.total_units_sold =
            state.total_units_sold
              + SumOver(DOMAIN item_catalog,
                        [i \in DOMAIN item_catalog |-> ReportedSold(i)])
       /\ state'.cash_in_machine =
            state.cash_in_machine
              + SumOver(DOMAIN item_catalog,
                        [i \in DOMAIN item_catalog |->
                           ReportedSold(i) * DictGet(state.prices, i, 0)])]_vars

\* an end-of-day run has sold two colas, one from slot 0 and one from slot 1,
\* and the takings are in the machine
C30_Witness ==
  /\ result.tool = "wait_for_next_day"
  /\ ~result.on_terminated
  /\ result.msg = <<"Morning report", state.current_day>>
  /\ "cola" \in DOMAIN result.report.sales
  /\ result.report.sales["cola"] = 2
  /\ state.machine_slots[1].item_id = "cola"
  /\ state.machine_slots[2].item_id = "cola"
  /\ state.total_units_sold >= 2
  /\ state.cash_in_machine > 0

\* box2 is box with emails added at the end only, every email of box kept in
\* its place and unchanged but for a read flag that went from unread to read
GrownAtEnd(box, box2) ==
  /\ Len(box2) >= Len(box)
  /\ \A k \in 1..Len(box) :
       /\ [box2[k] EXCEPT !.is_read = FALSE] = [box[k] EXCEPT !.is_read = FALSE]
       /\ box[k].is_read => box2[k].is_read

\* C31: emails are append-only.  Over every call the inbox and the outbox
\* only grow at the end; an email already present is never removed, moved or
\* modified, except that its read flag may go from unread to read; a read
\* email never becomes unread again; an outbox email is never touched.
C31_EmailsAppendOnly ==
  [][/\ GrownAtEnd(state.inbox, state'.inbox)
     /\ GrownAtEnd(state.outbox, state'.outbox)
     /\ \A k \in 1..Len(state.outbox) : state'.outbox[k] = state.outbox[k]]_vars

\* an inbox of more than 20 emails after a read_inbox and a later send_email:
\* the first email still unread, the second read, the newest unread
C31_Witness ==
  /\ result.tool = "send_email"
  /\ Len(state.inbox) > 21
  /\ ~state.inbox[1].is_read
  /\ state.inbox[2].is_read
  /\ ~state.inbox[Len(state.inbox)].is_read
  /\ Len(state.outbox) > 21

\* C32: the daily fee is charged each day.  current_day is the number of
\* end-of-day fee evaluations made so far: it moves only in a call that ran
\* the sales and the fee step of the day it leaves, one day at a time, also
\* when a time-costed tool call carries the clock across midnight.
C32_FeeEachDay ==
  [][state'.current_day # state.current_day =>
       /\ EndOfDayStep
       /\ state'.current_day = state.current_day + 1
       /\ \/ /\ state'.consecutive_days_unpaid_fee = 0
             /\ state'.cash_balance = state.cash_balance - state.daily_fee
          \/ /\ state'.consecutive_days_unpaid_fee
                  = state.consecutive_days_unpaid_fee + 1
             /\ state'.cash_balance = state.cash_balance]_vars

\* C33: the run caps are enforced.  While the simulator has not terminated
\* the message counter is at most max_messages and current_day at most
\* max_days.
C33_CapsEnforced ==
  ~terminated =>
    /\ message_count <= config.max_messages
    /\ state.current_day <= config.max_days

\* C34: RNG stream discipline for orders.  Accepting an order takes exactly
\* two draws, lead time and delivery minute, from the simulator's one episode
\* stream and none from any other stream; a rejected order takes no draw.
C34_OneStreamForOrders ==
  [][/\ OrderAccepted =>
          /\ rng_draws'.sim = rng_draws.sim + 2
          /\ rng_draws'.suppliers = rng_draws.suppliers
     /\ OrderRejected => rng_draws' = rng_draws]_vars

\* the clock of the simulator as a timestamp
Now == _timestamp(state.current_day, state.minute_of_day)

\* C35: after every completed tool call every event still in the queue lies
\* strictly in the future: its timestamp is greater than
\* current_day * 1440 + minute_of_day.
C35_QueuedEventsInFuture ==
  \A k \in 1..Len(event_queue) : event_queue[k].ts > Now

\* the ids of the orders whose delivery notice is in the inbox
NotifiedIds ==
  {state.inbox[k].subject[2] :
     k \in {j \in 1..Len(state.inbox) :
              state.inbox[j].subject[1] = "Delivery completed"}}

\* C36: open orders and queued deliveries correspond one to one.  Each order
\* in open_orders has exactly one Delivery event in the queue with its order
\* id, each queued Delivery event refers to exactly one open order, and order
\* ids are pairwise distinct over the run: the open orders have distinct ids
\* that were issued by the order counter, and no open order has the id of an
\* order delivered before.
C36_OrdersMatchDeliveries ==
  /\ \A o \in 1..Len(state.open_orders) :
       /\ Cardinality({k \in 1..Len(event_queue) :
                         /\ event_queue[k].kind = "delivery"
                         /\ event_queue[k].payload.order_id
                              = state.open_orders[o].order_id}) = 1
       /\ state.open_orders[o].order_id \in 1..state.order_counter
       /\ state.open_orders[o].order_id \notin NotifiedIds
       /\ \A p \in 1..Len(state.open_orders) :
            state.open_orders[p].order_id = state.open_orders[o].order_id
              => p = o
  /\ \A k \in 1..Len(event_queue) :
       /\ event_queue[k].kind = "delivery"
       /\ Cardinality({o \in 1..Len(state.open_orders) :
                         state.open_orders[o].order_id
                           = event_queue[k].payload.order_id}) = 1
  /\ Cardinality(NotifiedIds)
       = Cardinality({j \in 1..Len(state.inbox) :
                        state.inbox[j].subject[1] = "Delivery completed"})

\* the first order has been delivered and the second is open, with its
\* delivery queued
C36_Witness ==
  /\ Len(state.open_orders) = 1
  /\ state.open_orders[1].order_id = 2
  /\ Len(event_queue) = 1
  /\ event_queue[1].payload.order_id = 2
  /\ NotifiedIds = {1}

\* the items that are stored, stocked or on order before or after the step
ItemsInPlay ==
  StoredOrOrdered
    \cup {state.machine_slots[k].item_id : k \in 1..Len(state.machine_slots)}
    \cup {state'.machine_slots[k].item_id : k \in 1..Len(state'.machine_slots)}
    \cup DOMAIN result'.report.sales

\* the units of an item in storage and in the slots of a state
UnitsHeld(st, i) == DictGet(st.storage_inventory, i, 0) + SlotUnits(st, i)

\* C37: units are conserved.  For every item, what is in storage and in the
\* slots after a call is what was there before it, plus the units delivered
\* during the call, minus the units sold during it; stocking only moves
\* units from storage to a slot, and the end-of-day sales only take units
\* from slots.  So delivered = stored + stocked + sold at every moment.
C37_UnitsConserved ==
  [][\A i \in ItemsInPlay \ {NoItem} :
       /\ UnitsHeld(state', i)
            = UnitsHeld(state, i) + DeliveredQty(i) - ReportedSold(i)
       /\ StockStep =>
            /\ UnitsHeld(state', i) = UnitsHeld(state, i)
            /\ SlotUnits(state', i) >= SlotUnits(state, i)
       /\ EndOfDayStep =>
            /\ DictGet(state'.storage_inventory, i, 0)
                 = DictGet(state.storage_inventory, i, 0) + DeliveredQty(i)
            /\ SlotUnits(state', i) = SlotUnits(state, i) - ReportedSold(i)]_vars

\* gum was delivered, part of it was stocked and part of that was sold: some
\* is in storage, some in slot 0, and units have been sold
C37_Witness ==
  /\ result.tool = "wait_for_next_day"
  /\ "gum" \in DOMAIN result.report.sales
  /\ DictGet(state.storage_inventory, "gum", 0) > 0
  /\ state.machine_slots[1].item_id = "gum"
  /\ state.machine_slots[1].quantity > 0
  /\ state.total_units_sold > 0

\* C38: cash never goes negative.  From a non-negative initial cash,
\* cash_balance >= 0 and cash_in_machine >= 0 in every reachable state, and
\* no stored price is negative.
C38_CashNeverNegative ==
  /\ state.cash_balance >= 0
  /\ state.cash_in_machine >= 0
  /\ \A i \in DOMAIN state.prices : state.prices[i] >= 0

\* an order has taken most of the cash, the fee of a day could not be paid
\* from what is left, and the machine holds takings
C38_Witness ==
  /\ state.order_counter > 0
  /\ state.consecutive_days_unpaid_fee > 0
  /\ state.cash_balance < state.daily_fee
  /\ state.cash_in_machine > 0

\* C39: every stocked item is priced.  After every call each slot with an
\* item_id has an entry for that item in prices, and a price entry, once
\* there, is never removed: set_price only overwrites it.
C39_StockedItemsPriced ==
  [][/\ \A k \in 1..Len(state'.machine_slots) :
          state'.machine_slots[k].item_id # NoItem
            => state'.machine_slots[k].item_id \in DOMAIN state'.prices
     /\ DOMAIN state.prices \subseteq DOMAIN state'.prices]_vars

\* cola is in slot 0 and priced, and its price is the 0 a set-price
\* instruction wrote, not the default of stocking
C39_Witness ==
  /\ state.machine_slots[1].item_id = "cola"
  /\ state.machine_slots[1].quantity > 0
  /\ "cola" \in DOMAIN state.prices
  /\ state.prices["cola"] = 0

====
